---- MODULE Spec2Model ----
(***************************************************************************)
(* Cristalib: the filesystem-to-database reconciliation engine             *)
(* (src/core/scanner.py), the catalog store it writes to                   *)
(* (src/core/database.py) and the filename parser it calls                 *)
(* (src/core/parser.py).                                                   *)
(*                                                                         *)
(* Strings of the program that the code takes apart (paths, file names,    *)
(* the scan_extensions setting) are sequences of one-character strings.    *)
(* A file's content is named by its SHA-256 digest ("h1", "h2", ...):      *)
(* equal digest, equal bytes.                                              *)
(***************************************************************************)
EXTENDS Integers, Sequences, FiniteSets, TLC

VARIABLES
    fs,                     \* filesystem: path -> digest of the file there, or NoFile
    unreadable,             \* paths whose open()/read() raises IOError
    scan_folders,           \* table scan_folders: sequence of root paths
    exclude_folders,        \* table exclude_folders: sequence of paths
    scan_extensions,        \* app_settings['scan_extensions'] (None: no row)
    books,                  \* table books: sequence of rows in rowid order
    now,                    \* the clock datetime.now() reads
    edits,                  \* number of changes made by the environment so far
    pc,                     \* position of scan_folders: idle, updates, sync
    result,                 \* how the last run ended: none, completed, failed
    clean,                  \* the run started right after a completed run, filesystem untouched
    fs_changed,             \* the filesystem changed since the last completed run
    db_books,               \* get_all_books() as read at the start of the run
    found_files_by_hash,    \* scan_folders' local of that name
    found_files_by_path,    \* scan_folders' local of that name
    db_books_by_path,       \* scan_folders' local of that name
    current_db_books_by_hash, \* _process_updates' local, then processed_db_books_by_hash
    updated_paths,          \* updated paths still to be processed
    moved_hashes_to_process, \* moved hashes still to be processed
    new_hashes,             \* new hashes still to be processed
    deleted_hashes,         \* deleted hashes still to be processed
    ops,                    \* store mutations issued by the run, in order
    events,                 \* what the run has emitted and asked of the store, in order
    change,                 \* what happened to the files since the last completed run
    attached,               \* the scanner runs under ApplicationController, not on its own
    alive,                  \* the application process is running
    worker_thread,          \* ApplicationController.worker_thread: none, or a running QThread
    queued,                 \* worker threads started whose ScannerWorker.run has not begun
    finished_emitted,       \* the finished signal is queued for _on_scan_finished
    sync_button_enabled,    \* main_window.sync_button.isEnabled()
    status_message,         \* the last text of show_status_message
    notification,           \* what the controller has told the user of the last accepted run
    self_rules,             \* FileNameParser.rules of the parser under test
    last_filename,          \* the argument of the last parse_filename call (None: no call yet)
    last_book,              \* the Book that call returned
    given_rules,            \* the list FileNameParser was constructed with (None: not built)
    parse_calls,            \* number of parse_filename calls made on the parser
    rules_file,             \* the rules of config/parsing_rules.json (None: no such file)
    loaded,                 \* what load_rules returned (None: not called yet)
    password_hash,          \* app_settings['password_hash'] (None: no row)
    is_private_mode,        \* ApplicationController.is_private_mode
    settings_open,          \* settings_window is shown
    list_loads,             \* number of load_books_to_list calls made by toggle_private_mode
    auth_steps,             \* number of password-related requests handled so far
    last_auth               \* what the last of those requests asked, was told and did

scannerVars == <<fs, unreadable, scan_folders, exclude_folders, scan_extensions, books,
          now, edits, pc, result, clean, fs_changed, db_books,
          found_files_by_hash, found_files_by_path, db_books_by_path,
          current_db_books_by_hash, updated_paths, moved_hashes_to_process,
          new_hashes, deleted_hashes, ops, change, events>>

controllerVars == <<attached, alive, worker_thread, queued, finished_emitted,
                    sync_button_enabled, status_message, notification>>

parserVars == <<self_rules, last_filename, last_book, given_rules, parse_calls,
                rules_file, loaded>>

authVars == <<password_hash, is_private_mode, settings_open, list_loads, auth_steps,
              last_auth>>

vars == <<scannerVars, controllerVars, parserVars, authVars>>

runLocals == <<db_books, found_files_by_hash, found_files_by_path, db_books_by_path,
               current_db_books_by_hash, updated_paths, moved_hashes_to_process,
               new_hashes, deleted_hashes, ops>>

settings == <<scan_folders, exclude_folders, scan_extensions>>

(***************************************************************************)
(* Bounds of the model.                                                    *)
(***************************************************************************)
MaxRuns == 2        \* reconciliation runs in one behaviour
MaxEdits == 2       \* changes of files and user edits in one behaviour
MaxCalls == 2       \* parse_filename calls on one parser
MaxFileRules == 3   \* rules in config/parsing_rules.json

(***************************************************************************)
(* Values.                                                                 *)
(***************************************************************************)
\* Python's None, and a value that is not None.
None == <<>>
Some(v) == <<v>>
NoFile == "NoFile"
EmptyDict == [x \in {} |-> None]

Hashes == {"h1", "h2"}

\* Dictionary assignment d[k] = v.
Put(d, k, v) == [x \in (DOMAIN d) \cup {k} |-> IF x = k THEN v ELSE d[x]]

\* del d[k]
Del(d, k) == [x \in (DOMAIN d) \ {k} |-> d[x]]

\* The elements of a sequence.
Range(s) == {s[i] : i \in 1..Len(s)}

(***************************************************************************)
(* String functions of the Python library, on sequences of characters.     *)
(***************************************************************************)
StartsWith(s, prefix) ==
    /\ Len(prefix) <= Len(s)
    /\ \A i \in 1..Len(prefix) : s[i] = prefix[i]

\* The largest index of character c in s, 0 if there is none.
LastIndexOf(s, c) ==
    LET I == {i \in 1..Len(s) : s[i] = c}
    IN IF I = {} THEN 0 ELSE CHOOSE i \in I : \A j \in I : j <= i

\* os.path.join(root, file)
PathJoin(root, file) ==
    IF Len(root) > 0 /\ root[Len(root)] = "/" THEN root \o file
    ELSE root \o <<"/">> \o file

\* os.path.basename(path)
Basename(path) == SubSeq(path, LastIndexOf(path, "/") + 1, Len(path))

\* The dot stays with the root.
SplitExtAfterDot(name) ==
    LET sep == LastIndexOf(name, "/")
        dot == LastIndexOf(name, ".")
    IN IF dot > sep /\ \E i \in (sep + 1)..(dot - 1) : name[i] # "."
       THEN <<SubSeq(name, 1, dot), SubSeq(name, dot + 1, Len(name))>>
       ELSE <<name, <<>>>>

\* os.path.splitext(name): split at the last dot of the base name, unless
\* only dots precede it in the base name.
SplitExt(name) ==
    LET sep == LastIndexOf(name, "/")
        dot == LastIndexOf(name, ".")
    IN IF dot > sep /\ \E i \in (sep + 1)..(dot - 1) : name[i] # "."
       THEN <<SubSeq(name, 1, dot - 1), SubSeq(name, dot, Len(name))>>
       ELSE <<name, <<>>>>

UpperCase == [c \in {"C", "B", "Z", "I", "P", "T", "X"} |->
                CASE c = "C" -> "c" [] c = "B" -> "b" [] c = "Z" -> "z"
                  [] c = "I" -> "i" [] c = "P" -> "p" [] c = "T" -> "t"
                  [] c = "X" -> "x"]

\* str.lower()
Lower(s) == [i \in 1..Len(s) |-> IF s[i] \in DOMAIN UpperCase THEN UpperCase[s[i]] ELSE s[i]]

\* str.lstrip('.')
LStripDots(s) ==
    LET I == {i \in 1..Len(s) : s[i] # "."}
    IN IF I = {} THEN <<>>
       ELSE SubSeq(s, CHOOSE i \in I : \A j \in I : i <= j, Len(s))

\* str.strip(): whitespace removed at both ends.
Strip(s) ==
    LET I == {i \in 1..Len(s) : s[i] # " "}
    IN IF I = {} THEN <<>>
       ELSE SubSeq(s, CHOOSE i \in I : \A j \in I : i <= j,
                      CHOOSE i \in I : \A j \in I : j <= i)

\* str.split(','): the pieces between the commas, empty pieces included.
RECURSIVE SplitComma(_)
SplitComma(s) ==
    LET I == {i \in 1..Len(s) : s[i] = ","}
    IN IF I = {} THEN <<s>>
       ELSE LET k == CHOOSE i \in I : \A j \in I : i <= j
            IN <<SubSeq(s, 1, k - 1)>> \o SplitComma(SubSeq(s, k + 1, Len(s)))

(***************************************************************************)
(* The directory tree the scanner walks.  Directories are fixed; which     *)
(* files exist, and with which content, is the state variable fs.          *)
(***************************************************************************)
DirLib == <<"/", "l">>
DirSub == <<"/", "l", "/", "s">>

NameA == <<"[", "Y", "]", " ", "S", " ", "D", "1", "K", ".", "c", "b", "z">>
NameB == <<"T", " ", "2", " ", "(", "Y", ")", ".", "Z", "I", "P">>
NameC == <<"c", ".", "t", "x", "t">>

\* os.walk(top): (directory, its files) top-down, for top and the
\* directories below it.
Tree == << [root |-> DirLib, files |-> <<NameA, NameB>>],
           [root |-> DirSub, files |-> <<NameC>>] >>

Paths == UNION {{PathJoin(Tree[i].root, f) : f \in Range(Tree[i].files)} : i \in 1..Len(Tree)}

\* A directory beside the library whose path begins with the library's: /lx.
DirOther == <<"/", "l", "x">>

\* The directories of the disk: the library and the directory beside it.
TreeAll == Tree \o << [root |-> DirOther, files |-> <<NameC>>] >>

PathOther == PathJoin(DirOther, NameC)

\* os.walk(top)
OsWalk(top) ==
    SelectSeq(TreeAll, LAMBDA e : e.root = top \/ StartsWith(e.root, top \o <<"/">>))

(***************************************************************************)
(* models/book.py: Book, a row of table books.  The id column is the       *)
(* position of the row in the sequence books.  Nullable columns hold None  *)
(* or Some(value).                                                         *)
(***************************************************************************)
Book(title, subtitle, volume, author, original_author, series, is_magazine_collection) ==
    [title |-> title, subtitle |-> subtitle, volume |-> volume, author |-> author,
     original_author |-> original_author, series |-> series, category |-> None,
     rating |-> None, is_magazine_collection |-> is_magazine_collection,
     file_path |-> None, file_hash |-> "", created_at |-> 0]

\* The columns a user or the parser fills in: everything but path, hash, created_at.
Metadata(b) ==
    [title |-> b.title, subtitle |-> b.subtitle, volume |-> b.volume, author |-> b.author,
     original_author |-> b.original_author, series |-> b.series, category |-> b.category,
     rating |-> b.rating, is_magazine_collection |-> b.is_magazine_collection]

(***************************************************************************)
(* Regular expressions (Python's re, backtracking semantics).  A pattern   *)
(* is a sequence of elements:                                              *)
(*   lit   one literal character                                           *)
(*   bol   ^                                                               *)
(*   rep   a character class repeated min or more times, greedy or lazy,   *)
(*         captured as group grp when grp is not None                      *)
(*   opt   ( sub )? captured as group grp                                  *)
(*   optlit  one literal character, optional (c?)                          *)
(*   close end of an open group (internal)                                 *)
(* Characters standing for the Japanese literals of the rules:             *)
(*   "D" = 第, "K" = 巻, "M" = 雑誌寄せ集め.                                *)
(***************************************************************************)
Digits == {"0", "1", "2", "3", "4", "5", "6", "7", "8", "9"}
DigitVal == [c \in Digits |->
    CASE c = "0" -> 0 [] c = "1" -> 1 [] c = "2" -> 2 [] c = "3" -> 3 [] c = "4" -> 4
      [] c = "5" -> 5 [] c = "6" -> 6 [] c = "7" -> 7 [] c = "8" -> 8 [] c = "9" -> 9]

Lit(c) == [t |-> "lit", c |-> c]
Bol == [t |-> "bol"]
Rep(cls, min, greedy, grp) ==
    [t |-> "rep", cls |-> cls, min |-> min, greedy |-> greedy, grp |-> grp]
Opt(sub, grp) == [t |-> "opt", sub |-> sub, grp |-> grp]
OptLit(c) == [t |-> "optlit", c |-> c]
Close(grp, start) == [t |-> "close", grp |-> grp, start |-> start]

InClass(ch, cls) ==
    CASE cls = "any" -> TRUE
      [] cls = "space" -> ch = " "
      [] cls = "digit" -> ch \in Digits
      [] OTHER -> ch = cls

\* The number of characters of class cls at s[pos], s[pos+1], ...
RunLength(s, pos, cls) ==
    LET Stop == {i \in pos..Len(s) : ~InClass(s[i], cls)}
    IN IF Stop = {} THEN Len(s) - pos + 1
       ELSE (CHOOSE i \in Stop : \A j \in Stop : i <= j) - pos

SetMax(S) == CHOOSE n \in S : \A m \in S : m <= n
SetMin(S) == CHOOSE n \in S : \A m \in S : n <= m

ReFail == [ok |-> FALSE, caps |-> EmptyDict]

\* Match pat at position pos of s; the first match in backtracking order.
RECURSIVE ReMatch(_, _, _, _)
ReMatch(pat, s, pos, caps) ==
    IF pat = <<>> THEN [ok |-> TRUE, caps |-> caps]
    ELSE LET e == Head(pat)
             rest == Tail(pat)
         IN CASE e.t = "lit" ->
                  IF pos <= Len(s) /\ s[pos] = e.c THEN ReMatch(rest, s, pos + 1, caps)
                  ELSE ReFail
              [] e.t = "bol" ->
                  IF pos = 1 THEN ReMatch(rest, s, pos, caps) ELSE ReFail
              [] e.t = "close" ->
                  ReMatch(rest, s, pos, Put(caps, e.grp, Some(SubSeq(s, e.start, pos - 1))))
              [] e.t = "rep" ->
                  LET avail == RunLength(s, pos, e.cls)
                      With(n) == IF e.grp = None THEN caps
                                 ELSE Put(caps, e.grp[1], Some(SubSeq(s, pos, pos + n - 1)))
                      good == {n \in e.min..avail : ReMatch(rest, s, pos + n, With(n)).ok}
                  IN IF good = {} THEN ReFail
                     ELSE LET n == IF e.greedy THEN SetMax(good) ELSE SetMin(good)
                          IN ReMatch(rest, s, pos + n, With(n))
              [] e.t = "opt" ->
                  LET taken == ReMatch(e.sub \o <<Close(e.grp, pos)>> \o rest, s, pos, caps)
                  IN IF taken.ok THEN taken ELSE ReMatch(rest, s, pos, caps)
              [] e.t = "optlit" ->
                  LET taken == IF pos <= Len(s) /\ s[pos] = e.c
                               THEN ReMatch(rest, s, pos + 1, caps) ELSE ReFail
                  IN IF taken.ok THEN taken ELSE ReMatch(rest, s, pos, caps)

\* The named groups of a pattern.
RECURSIVE GroupNames(_)
GroupNames(pat) ==
    IF pat = <<>> THEN {}
    ELSE LET e == Head(pat)
         IN (CASE e.t = "rep" -> IF e.grp = None THEN {} ELSE {e.grp[1]}
               [] e.t = "opt" -> {e.grp} \cup GroupNames(e.sub)
               [] OTHER -> {})
            \cup GroupNames(Tail(pat))

\* re.search(regex, s): the match at the leftmost position that has one;
\* groupdict() of it, groups that took no part being None.
ReSearch(pat, s) ==
    LET init == [g \in GroupNames(pat) |-> None]
        starts == {i \in 1..(Len(s) + 1) : ReMatch(pat, s, i, init).ok}
    IN IF starts = {} THEN ReFail ELSE ReMatch(pat, s, SetMin(starts), init)

\* int(text) of a string of digits.
RECURSIVE ParseInt(_)
ParseInt(text) ==
    IF Len(text) = 0 THEN 0
    ELSE 10 * ParseInt(SubSeq(text, 1, Len(text) - 1)) + DigitVal[text[Len(text)]]

(***************************************************************************)
(* core/parser.py                                                          *)
(***************************************************************************)
MagazineGroup == Opt(<<Rep("space", 0, TRUE, None), Lit("("), Lit("M"), Lit(")")>>,
                     "magazine_flag")

\* ParsingRuleLoader.load_rules: the built-in rules.
hardcoded_rules ==
    << [name |-> "rule1", priority |-> 1,
        regex |-> <<Lit("["), Rep("any", 1, FALSE, Some("author")), Lit("]"),
                    Rep("space", 0, TRUE, None),
                    Rep("any", 1, FALSE, Some("title")),
                    Rep("space", 0, TRUE, None), Lit("D"),
                    Rep("digit", 1, TRUE, Some("volume")), Lit("K"),
                    MagazineGroup, Rep("any", 0, TRUE, None)>>],
       [name |-> "rule2", priority |-> 2,
        regex |-> <<Rep("any", 1, FALSE, Some("title")),
                    Rep("space", 0, TRUE, None),
                    Rep("digit", 1, TRUE, Some("volume")),
                    Rep("space", 0, TRUE, None), Lit("("),
                    Rep("any", 1, FALSE, Some("author")), Lit(")"),
                    MagazineGroup, Rep("any", 0, TRUE, None)>>] >>

\* The rules of tests/test_parser.py (fixture sample_rules).
MagazineGroupSpaced == Opt(<<Rep("space", 1, TRUE, None), Lit("("), Lit("M"), Lit(")")>>,
                           "magazine_flag")

sample_rules ==
    << [name |-> "sample1", priority |-> 1,
        regex |-> <<Bol, Lit("["), Rep("any", 1, FALSE, Some("author")), Lit("]"),
                    Rep("space", 0, TRUE, None),
                    Rep("any", 1, FALSE, Some("title")),
                    Rep("space", 1, TRUE, None), OptLit("D"),
                    Rep("digit", 1, TRUE, Some("volume")), Lit("K"),
                    MagazineGroupSpaced, Rep("any", 0, TRUE, None)>>],
       [name |-> "sample2", priority |-> 2,
        regex |-> <<Bol, Rep("any", 1, FALSE, Some("title")),
                    Rep("space", 0, TRUE, None), OptLit("D"),
                    Rep("digit", 1, TRUE, Some("volume")), Lit("K"),
                    Rep("space", 1, TRUE, None), Lit("("),
                    Rep("any", 1, FALSE, Some("author")), Lit(")"),
                    MagazineGroupSpaced, Rep("any", 0, TRUE, None)>>],
       [name |-> "sample3", priority |-> 999,
        regex |-> <<Rep("any", 1, TRUE, Some("title"))>>] >>

\* A rule as a user writes it in the rules file, whose volume and
\* magazine_flag groups may capture the empty string:
\* ^(?P<title>.+?) (?P<volume>\d*)(?P<magazine_flag>M*)
user_rules ==
    << [name |-> "user1", priority |-> 1,
        regex |-> <<Bol, Rep("any", 1, FALSE, Some("title")), Lit(" "),
                    Rep("digit", 0, TRUE, Some("volume")),
                    Rep("M", 0, TRUE, Some("magazine_flag"))>>] >>

\* dict.get(key): None when the key is missing.
DictGet(d, k) == IF k \in DOMAIN d THEN d[k] ELSE None

\* The volume capture is tested with "is not None": an empty capture counts.
BookFromMatchEmptyVolume(data) ==
    LET is_magazine == "magazine_flag" \in DOMAIN data /\ data["magazine_flag"] # None
        vol == DictGet(data, "volume")
    IN Book(DictGet(data, "title"), DictGet(data, "subtitle"),
            IF vol # None THEN Some(ParseInt(vol[1])) ELSE None,
            DictGet(data, "author"), DictGet(data, "original_author"),
            DictGet(data, "series"), is_magazine)

\* The Book built from the groupdict of the winning rule.
BookFromMatch(data) ==
    LET is_magazine == "magazine_flag" \in DOMAIN data /\ data["magazine_flag"] # None
        vol == DictGet(data, "volume")
    IN Book(DictGet(data, "title"), DictGet(data, "subtitle"),
            IF vol # None /\ vol[1] # <<>> THEN Some(ParseInt(vol[1])) ELSE None,
            DictGet(data, "author"), DictGet(data, "original_author"),
            DictGet(data, "series"), is_magazine)

\* The last rule that matches wins instead of the first.
ParseWithRulesLastMatch(rules, k, base_filename) ==
    LET M == {i \in k..Len(rules) : ReSearch(rules[i].regex, base_filename).ok}
    IN IF M = {} THEN Book(Some(base_filename), None, None, None, None, None, FALSE)
       ELSE BookFromMatch(ReSearch(rules[SetMax(M)].regex, base_filename).caps)

\* FileNameParser.parse_filename over the rule list rules, from rule k on.
RECURSIVE ParseWithRules(_, _, _)
ParseWithRules(rules, k, base_filename) ==
    IF k > Len(rules) THEN Book(Some(base_filename), None, None, None, None, None, FALSE)
    ELSE LET match == ReSearch(rules[k].regex, base_filename)
         IN IF match.ok THEN BookFromMatch(match.caps)
            ELSE ParseWithRules(rules, k + 1, base_filename)

\* os.path.splitext forgotten: the rules see the name with its extension.
parse_filename_keep_ext(rules, filename) == ParseWithRules(rules, 1, filename)

\* FileNameParser(rules).parse_filename(filename)
parse_filename(rules, filename) == ParseWithRules(rules, 1, SplitExt(filename)[1])

\* The parser the controller builds: FileNameParser(rule_loader.load_rules()).
parser_rules == hardcoded_rules

\* x.get('priority', 999)
PriorityOf(rule) == IF "priority" \in DOMAIN rule THEN rule.priority ELSE 999

\* One step of the stable sort: rule goes behind every rule of sorted whose
\* key is not larger than its own.
RECURSIVE InsertByPriority(_, _)
InsertByPriority(rule, sorted) ==
    IF sorted = <<>> THEN <<rule>>
    ELSE IF PriorityOf(Head(sorted)) <= PriorityOf(rule)
         THEN <<Head(sorted)>> \o InsertByPriority(rule, Tail(sorted))
         ELSE <<rule>> \o sorted

\* rules.sort(key=lambda x: x.get('priority', 999)): list.sort is stable.
RECURSIVE SortByPriorityFrom(_, _)
SortByPriorityFrom(rules, sorted) ==
    IF rules = <<>> THEN sorted
    ELSE SortByPriorityFrom(Tail(rules), InsertByPriority(Head(rules), sorted))

SortByPriority(rules) == SortByPriorityFrom(rules, <<>>)

\* load_rules hands the file's list over as it stands.
load_rules_unsorted(file) ==
    IF file = None THEN hardcoded_rules ELSE file[1]

\* ParsingRuleLoader.load_rules(): the built-in rules when the file does not
\* exist, the rules of the file otherwise, sorted by priority.
load_rules(file) ==
    IF file = None THEN SortByPriority(hardcoded_rules) ELSE SortByPriority(file[1])

\* The constructor sorts the list it is given.
FileNameParserSorted(rules) == SortByPriority(rules)

\* FileNameParser(rules): self.rules = rules.
FileNameParser(rules) == rules

(***************************************************************************)
(* core/database.py: the catalog store.                                    *)
(***************************************************************************)
StoreHashes(rows) == {rows[i].file_hash : i \in 1..Len(rows)}

\* A table without the UNIQUE constraint.
UniqueViolationOff(rows, k, h) == FALSE

\* The UNIQUE constraint of column file_hash: giving row k (0: a new row)
\* hash h is rejected when another row holds h.
UniqueViolation(rows, k, h) == \E i \in 1..Len(rows) : i # k /\ rows[i].file_hash = h

\* A store operation either commits (ok, the new table) or raises
\* sqlite3.IntegrityError and leaves the table as it was.
Committed(rows) == [ok |-> TRUE, rows |-> rows]
Raised(rows) == [ok |-> FALSE, rows |-> rows]

\* DatabaseManager.save_book
save_book(rows, book) ==
    IF UniqueViolation(rows, 0, book.file_hash) THEN Raised(rows)
    ELSE Committed(Append(rows, book))

\* INSERT OR REPLACE in place of UPDATE: the row is written anew.
update_book_path_replace(rows, file_hash, new_path) ==
    Committed([i \in 1..Len(rows) |->
                 IF rows[i].file_hash = file_hash
                 THEN [Book(None, None, None, None, None, None, FALSE)
                          EXCEPT !.file_path = new_path, !.file_hash = file_hash,
                                 !.created_at = rows[i].created_at]
                 ELSE rows[i]])

\* The UPDATE also stamps the row with the time of the run.
update_book_path_restamp(rows, file_hash, new_path) ==
    Committed([i \in 1..Len(rows) |->
                 IF rows[i].file_hash = file_hash
                 THEN [rows[i] EXCEPT !.file_path = new_path, !.created_at = now]
                 ELSE rows[i]])

\* DatabaseManager.update_book_path
update_book_path(rows, file_hash, new_path) ==
    Committed([i \in 1..Len(rows) |->
                 IF rows[i].file_hash = file_hash
                 THEN [rows[i] EXCEPT !.file_path = new_path] ELSE rows[i]])

\* DELETE ... WHERE file_path = ? given the hash.
delete_book_by_path(rows, file_hash) ==
    Committed(SelectSeq(rows, LAMBDA r : r.file_path # file_hash))

\* DatabaseManager.delete_book
delete_book(rows, file_hash) ==
    Committed(SelectSeq(rows, LAMBDA r : r.file_hash # file_hash))

\* update_book_hash(old_hash, new_hash, path) of the store interface: the
\* record with old_hash gets new_hash at the same path, metadata kept.
update_book_hash(rows, old_hash, new_hash, path) ==
    IF \E i \in 1..Len(rows) : rows[i].file_hash = old_hash /\ UniqueViolation(rows, i, new_hash)
    THEN Raised(rows)
    ELSE Committed([i \in 1..Len(rows) |->
                 IF rows[i].file_hash = old_hash
                 THEN [rows[i] EXCEPT !.file_hash = new_hash, !.file_path = path]
                 ELSE rows[i]])

\* DatabaseManager.get_all_books
get_all_books == books

(***************************************************************************)
(* core/scanner.py: FileScanner                                            *)
(***************************************************************************)
\* The digest is returned although reading the file fails.
calculate_hash_raw(file_path) == fs[file_path]

\* FileScanner._calculate_hash: the digest, "" on IOError.
calculate_hash(file_path) == IF file_path \in unreadable THEN "" ELSE fs[file_path]

\* FileScanner._get_scan_settings: the set of target extensions.
target_extensions_of(scan_extensions_str) ==
    IF scan_extensions_str = None \/ scan_extensions_str[1] = <<>> THEN {}
    ELSE LET parts == SplitComma(scan_extensions_str[1])
         IN {Lower(Strip(parts[i])) : i \in {j \in 1..Len(parts) : Strip(parts[j]) # <<>>}}

\* os.walk's list of the files of directory root: the files that exist.
ListDir(entry) == SelectSeq(entry.files, LAMBDA f : fs[PathJoin(entry.root, f)] # NoFile)

\* The extension is compared as written, upper case included.
ExtensionAcceptedCaseSensitive(file, target_extensions) ==
    LET file_ext == LStripDots(SplitExt(file)[2])
    IN ~(target_extensions # {} /\ file_ext \notin target_extensions)

\* FileScanner._scan_filesystem, the test of the inner loop: is the file taken?
ExtensionAccepted(file, target_extensions) ==
    LET file_ext == Lower(LStripDots(SplitExt(file)[2]))
    IN ~(target_extensions # {} /\ file_ext \notin target_extensions)

\* A directory is skipped when it is an excluded directory or lies below one.
ExcludedSegment(root, exclude_paths) ==
    \E i \in 1..Len(exclude_paths) :
        root = exclude_paths[i] \/ StartsWith(root, exclude_paths[i] \o <<"/">>)

\* Only the excluded directory itself is skipped, not the directories below it.
ExcludedExact(root, exclude_paths) ==
    \E i \in 1..Len(exclude_paths) : root = exclude_paths[i]

\* FileScanner._scan_filesystem, the test of the walk loop: is the directory skipped?
Excluded(root, exclude_paths) ==
    \E i \in 1..Len(exclude_paths) : StartsWith(root, exclude_paths[i])

\* The paths _scan_filesystem hashes, in the order it reaches them.
RECURSIVE FilesOfWalk(_, _, _)
FilesOfWalk(walk, exclude_paths, target_extensions) ==
    IF walk = <<>> THEN <<>>
    ELSE LET entry == Head(walk)
             here == IF Excluded(entry.root, exclude_paths) THEN <<>>
                     ELSE LET taken == SelectSeq(ListDir(entry),
                                          LAMBDA f : ExtensionAccepted(f, target_extensions))
                          IN [j \in 1..Len(taken) |-> PathJoin(entry.root, taken[j])]
         IN here \o FilesOfWalk(Tail(walk), exclude_paths, target_extensions)

RECURSIVE FilesOfFolders(_, _, _)
FilesOfFolders(folders, exclude_paths, target_extensions) ==
    IF folders = <<>> THEN <<>>
    ELSE FilesOfWalk(OsWalk(Head(folders)), exclude_paths, target_extensions)
         \o FilesOfFolders(Tail(folders), exclude_paths, target_extensions)

\* The test "if file_hash:" forgotten: a file without a hash is entered too.
FoundStepNoCheck(found, file_path) ==
    LET file_hash == calculate_hash(file_path)
    IN [by_hash |-> Put(found.by_hash, file_hash, file_path),
        by_path |-> Put(found.by_path, file_path, file_hash)]

\* The first file of a hash wins instead of the last.
FoundStepFirstWins(found, file_path) ==
    LET file_hash == calculate_hash(file_path)
    IN IF file_hash # ""
       THEN [by_hash |-> IF file_hash \in DOMAIN found.by_hash THEN found.by_hash
                         ELSE Put(found.by_hash, file_hash, file_path),
             by_path |-> Put(found.by_path, file_path, file_hash)]
       ELSE found

\* A file whose hash is known already is not entered by its path.
FoundStepHashOnly(found, file_path) ==
    LET file_hash == calculate_hash(file_path)
    IN IF file_hash # ""
       THEN [by_hash |-> Put(found.by_hash, file_hash, file_path),
             by_path |-> IF file_hash \in DOMAIN found.by_hash THEN found.by_path
                         ELSE Put(found.by_path, file_path, file_hash)]
       ELSE found

\* One more file of the walk entered in the two dictionaries.
FoundStep(found, file_path) ==
    LET file_hash == calculate_hash(file_path)
    IN IF file_hash # ""
       THEN [by_hash |-> Put(found.by_hash, file_hash, file_path),
             by_path |-> Put(found.by_path, file_path, file_hash)]
       ELSE found

RECURSIVE FoldFound(_, _)
FoldFound(found, files) ==
    IF files = <<>> THEN found
    ELSE FoldFound(FoundStep(found, Head(files)), Tail(files))

\* FileScanner._scan_filesystem
scan_filesystem(folders, exclude_paths, target_extensions) ==
    FoldFound([by_hash |-> EmptyDict, by_path |-> EmptyDict],
              FilesOfFolders(folders, exclude_paths, target_extensions))

\* A dict comprehension {key(b): b for b in rows}: the last row of a key wins.
RECURSIVE DictOfRows(_, _, _)
DictOfRows(d, rows, byHash) ==
    IF rows = <<>> THEN d
    ELSE LET b == Head(rows)
         IN DictOfRows(Put(d, IF byHash THEN b.file_hash ELSE b.file_path, b),
                       Tail(rows), byHash)

\* FileScanner._get_db_books
get_db_books(rows) == [by_hash |-> DictOfRows(EmptyDict, rows, TRUE),
                       by_path |-> DictOfRows(EmptyDict, rows, FALSE)]

\* Every stored path that was found counts as updated, whatever its hash.
UpdatedPathsAnyHash(found_by_path, by_path) ==
    {p \in DOMAIN by_path : p \in DOMAIN found_by_path}

\* FileScanner._process_updates: the set updated_paths.
UpdatedPaths(found_by_path, by_path) ==
    {p \in DOMAIN by_path :
        p \in DOMAIN found_by_path /\ found_by_path[p] # by_path[p].file_hash}

\* FileScanner._process_updates: the bookkeeping after one update.
PruneUpdated(cur, old_book, new_hash) ==
    Put(IF old_book.file_hash \in DOMAIN cur THEN Del(cur, old_book.file_hash) ELSE cur,
        new_hash, old_book)

\* A record counts as deleted when no file was found at its stored path.
DeletedHashesByPath(found_by_hash, processed_db) ==
    {h \in DOMAIN processed_db :
        processed_db[h].file_path \notin {found_by_hash[k] : k \in DOMAIN found_by_hash}}

\* A record counts as deleted only when its file is gone from the disk.
DeletedHashesFileGone(found_by_hash, processed_db) ==
    {h \in DOMAIN processed_db :
        h \notin DOMAIN found_by_hash /\ fs[processed_db[h].file_path] = NoFile}

\* Nothing is ever classified as deleted.
DeletedHashesNone(found_by_hash, processed_db) == {}

\* Every hash on both sides counts as moved, whatever its path.
MovedHashesAnyPath(found_by_hash, processed_db) ==
    (DOMAIN found_by_hash) \cap (DOMAIN processed_db)

\* No found hash is ever classified as new.
NewHashesNone(found_by_hash, processed_db) == {}

\* FileScanner._process_moves_adds_deletes: the three sets.
DeletedHashes(found_by_hash, processed_db) == (DOMAIN processed_db) \ (DOMAIN found_by_hash)
NewHashes(found_by_hash, processed_db) == (DOMAIN found_by_hash) \ (DOMAIN processed_db)
MovedHashes(found_by_hash, processed_db) ==
    {h \in (DOMAIN found_by_hash) \cap (DOMAIN processed_db) :
        found_by_hash[h] # processed_db[h].file_path}

\* The delete loop placed before the insert loop.
SyncPhaseDeletesFirst(moved, new, deleted) ==
    IF moved # {} THEN "moves"
    ELSE IF deleted # {} THEN "deletes"
    ELSE IF new # {} THEN "inserts"
    ELSE "finish"

\* FileScanner._process_moves_adds_deletes: the loop that runs next.
SyncPhase(moved, new, deleted) ==
    IF moved # {} THEN "moves"
    ELSE IF new # {} THEN "inserts"
    ELSE IF deleted # {} THEN "deletes"
    ELSE "finish"

\* The whole path parsed, os.path.basename forgotten.
NewBookFullPath(path, h, timestamp) ==
    [parse_filename(parser_rules, path)
        EXCEPT !.file_path = path, !.file_hash = h, !.created_at = timestamp]

\* FileScanner._process_moves_adds_deletes: the record inserted for hash h.
NewBook(path, h, timestamp) ==
    [parse_filename(parser_rules, Basename(path))
        EXCEPT !.file_path = path, !.file_hash = h, !.created_at = timestamp]

NoBook == Book(None, None, None, None, None, None, FALSE)

\* An entry of the list of store mutations a run issues.
\* self.progress.emit(text), self.finished.emit(), and a call of the store.
Progress(what, h) == [ev |-> "progress", what |-> what, h |-> h]
Finished == [ev |-> "finished", what |-> "", h |-> ""]
StoreCall(what, h) == [ev |-> "store", what |-> what, h |-> h]

\* scan_folders up to _get_db_books: the start notification, then the
\* settings and the books are read.
start_events ==
    <<Progress("start", ""), StoreCall("get_settings", ""), StoreCall("get_all_books", "")>>

\* The delete loop tells nothing.
op_events_silent_delete(name, h, ok) ==
    IF name = "update_book_hash" THEN <<Progress(name, h), StoreCall(name, h)>>
    ELSE IF ok /\ name # "delete_book" THEN <<StoreCall(name, h), Progress(name, h)>>
    ELSE <<StoreCall(name, h)>>

\* One turn of a loop: _process_updates notifies and then calls the store,
\* the loops of _process_moves_adds_deletes call the store and then notify.
op_events(name, h, ok) ==
    IF name = "update_book_hash" THEN <<Progress(name, h), StoreCall(name, h)>>
    ELSE IF ok THEN <<StoreCall(name, h), Progress(name, h)>>
    ELSE <<StoreCall(name, h)>>

\* The end of scan_folders: the completion notification, then finished.
finish_events == <<Progress("done", ""), Finished>>

Op(name, h, h2, path, book, ok) ==
    [op |-> name, h |-> h, h2 |-> h2, path |-> path, book |-> book, ok |-> ok]

(***************************************************************************)
(* The state after construction: an empty store (create_tables), settings  *)
(* as saved, any files on disk, no run in progress.                        *)
(***************************************************************************)
\* The settings a user has saved: no filter at all, or the extensions
\* "cbz, ZIP" with /l/s excluded.
SavedSettings ==
    { [exclude |-> <<>>, extensions |-> None],
      [exclude |-> <<DirSub>>, extensions |-> Some(<<"c", "b", "z", ",", " ", "Z", "I", "P">>)] }

\* The content of the files found on disk at the first start.
InitialContent == {"h1", "h2"}

\* The texts of the status bar.
MsgNone == "none"
MsgPreparing == "preparing"
MsgAlreadyRunning == "already running"
MsgRefreshed == "refreshed"

\* The scanner is used on its own: no controller, no worker thread.
Standalone ==
    /\ attached = FALSE
    /\ alive = TRUE
    /\ worker_thread = "none"
    /\ queued = 0
    /\ finished_emitted = FALSE
    /\ sync_button_enabled = TRUE
    /\ status_message = MsgNone
    /\ notification = "none"

\* No FileNameParser is under test.
NoParser ==
    /\ self_rules = <<>>
    /\ last_filename = None
    /\ last_book = NoBook
    /\ given_rules = None
    /\ parse_calls = 0
    /\ rules_file = None
    /\ loaded = None

\* What last_auth holds of one request: the handler, the hash it read, the answer to
\* the first-time question, how the password dialog ended and the password it gave,
\* whether set_setting stored a new hash, whether _open_settings_window was called.
AuthRecord(handler, stored, reply, dialog, password, saved, opened) ==
    [handler |-> handler, stored |-> stored, reply |-> reply, dialog |-> dialog,
     password |-> password, saved |-> saved, opened |-> opened]

\* No password-related request has been handled.
NoRequest == AuthRecord("none", None, "none", "none", "", FALSE, FALSE)

\* ApplicationController.__init__: normal mode, no settings window shown, no password.
NoAuth ==
    /\ password_hash = None
    /\ is_private_mode = FALSE
    /\ settings_open = FALSE
    /\ list_loads = 0
    /\ auth_steps = 0
    /\ last_auth = NoRequest

\* A step of ScannerWorker.run needs the process, when there is one.
WorkerAlive == attached => alive

\* worker_thread.started: ScannerWorker.run begins on the thread started for it.
WorkerBegins ==
    /\ IF attached
       THEN /\ queued > 0
            /\ queued' = queued - 1
            /\ UNCHANGED <<attached, alive, worker_thread, finished_emitted,
                           sync_button_enabled, status_message, notification>>
       ELSE UNCHANGED controllerVars
    /\ UNCHANGED <<parserVars, authVars>>

\* A store operation of the run: when it raises, the exception leaves
\* ScannerWorker.run, a slot Qt has called.  No handler is installed: PyQt
\* either ends the process (qFatal) or prints the traceback and returns to the
\* event loop of the thread.
WorkerSteps ==
    /\ IF attached /\ result' = "failed"
       THEN /\ alive' \in BOOLEAN
            /\ UNCHANGED <<attached, worker_thread, queued, finished_emitted,
                           sync_button_enabled, status_message, notification>>
       ELSE UNCHANGED controllerVars
    /\ UNCHANGED <<parserVars, authVars>>

\* scan_folders emits finished: ScannerWorker.finished is queued for the
\* main thread.
WorkerReturns ==
    /\ IF attached
       THEN /\ finished_emitted' = TRUE
            /\ UNCHANGED <<attached, alive, worker_thread, queued,
                           sync_button_enabled, status_message, notification>>
       ELSE UNCHANGED controllerVars
    /\ UNCHANGED <<parserVars, authVars>>

\* The paths the walk accepts, in the order of the walk, and the readable ones.
AcceptedFiles ==
    FilesOfFolders(scan_folders, exclude_folders, target_extensions_of(scan_extensions))
ReadableAccepted == {p \in Range(AcceptedFiles) : p \notin unreadable}

\* What the last change of the files was: one file removed right after a
\* completed run ("delete": its path, its digest, and whether another file
\* the walk reads held the same bytes), or anything else.
OtherChange == [kind |-> "other", path |-> <<>>, hash |-> "", duplicate |-> FALSE]
OneDeleted(p) ==
    [kind |-> "delete", path |-> p, hash |-> fs[p],
     duplicate |-> /\ p \in ReadableAccepted
                   /\ \E q \in ReadableAccepted \ {p} : fs[q] = fs[p]]

\* The files of the walk that cannot be read.
UnreadableAccepted == {p \in Range(AcceptedFiles) : p \in unreadable}

\* File p, which the last completed run could not read, is readable again:
\* its path, its digest, and whether another file the walk reads has the
\* same bytes.
OneReadable(p) ==
    [kind |-> "readable", path |-> p, hash |-> fs[p],
     duplicate |-> \E q \in ReadableAccepted \ {p} : fs[q] = fs[p]]

NoLocals ==
    /\ db_books = <<>>
    /\ found_files_by_hash = EmptyDict
    /\ found_files_by_path = EmptyDict
    /\ db_books_by_path = EmptyDict
    /\ current_db_books_by_hash = EmptyDict
    /\ updated_paths = {}
    /\ moved_hashes_to_process = {}
    /\ new_hashes = {}
    /\ deleted_hashes = {}
    /\ ops = <<>>
    /\ events = <<>>

Init ==
    /\ fs \in [Paths -> InitialContent \cup {NoFile}]
    /\ unreadable = {}
    /\ scan_folders = <<DirLib>>
    /\ \E saved \in SavedSettings :
          /\ exclude_folders = saved.exclude
          /\ scan_extensions = saved.extensions
    /\ books = <<>>
    /\ now = 0
    /\ edits = 0
    /\ pc = "idle"
    /\ result = "none"
    /\ clean = FALSE
    /\ fs_changed = TRUE
    /\ change = OtherChange
    /\ NoLocals
    /\ Standalone
    /\ NoAuth
    /\ NoParser

\* The locals of the last run are gone.
ResetLocals ==
    /\ db_books' = <<>>
    /\ found_files_by_hash' = EmptyDict
    /\ found_files_by_path' = EmptyDict
    /\ db_books_by_path' = EmptyDict
    /\ current_db_books_by_hash' = EmptyDict
    /\ updated_paths' = {}
    /\ moved_hashes_to_process' = {}
    /\ new_hashes' = {}
    /\ deleted_hashes' = {}
    /\ ops' = <<>>
    /\ events' = <<>>

(***************************************************************************)
(* The environment: files change on disk while no run is in progress, and  *)
(* the user edits a record.                                                *)
(***************************************************************************)
FsChanged ==
    /\ pc = "idle"
    /\ edits < MaxEdits
    /\ edits' = edits + 1
    /\ fs_changed' = TRUE
    /\ result' = "none"
    /\ clean' = FALSE
    /\ ResetLocals
    /\ UNCHANGED <<settings, books, now, pc>>
    /\ UNCHANGED <<controllerVars, parserVars, authVars>>

\* A file is created or rewritten with content of digest h.
WriteFile ==
    \E p \in Paths, h \in Hashes :
        /\ fs[p] # h
        /\ fs' = [fs EXCEPT ![p] = h]
        /\ UNCHANGED unreadable
        /\ FsChanged
        /\ change' = OtherChange

\* A file is removed.
DeleteFile ==
    \E p \in Paths :
        /\ fs[p] # NoFile
        /\ fs' = [fs EXCEPT ![p] = NoFile]
        /\ unreadable' = unreadable \ {p}
        /\ FsChanged
        /\ change' = IF fs_changed THEN OtherChange ELSE OneDeleted(p)

\* A file is renamed, content unchanged.
MoveFile ==
    \E p \in Paths, q \in Paths :
        /\ fs[p] # NoFile
        /\ fs[q] = NoFile
        /\ fs' = [fs EXCEPT ![p] = NoFile, ![q] = fs[p]]
        /\ unreadable' = IF p \in unreadable THEN (unreadable \ {p}) \cup {q} ELSE unreadable
        /\ FsChanged
        /\ change' = OtherChange

\* A file becomes unreadable (permissions, device error) or readable again.
ChmodFile ==
    \E p \in Paths :
        /\ fs[p] # NoFile
        /\ unreadable' = IF p \in unreadable THEN unreadable \ {p} ELSE unreadable \cup {p}
        /\ UNCHANGED fs
        /\ FsChanged
        /\ change' = IF ~fs_changed /\ p \in UnreadableAccepted
                     THEN OneReadable(p) ELSE OtherChange

\* The user rates a book in the edit dialog.
EditBook ==
    \E i \in 1..Len(books) :
        /\ pc = "idle"
        /\ books[i].rating = None
        /\ books' = [books EXCEPT ![i].rating = Some(5)]
        /\ edits < MaxEdits
        /\ edits' = edits + 1
        /\ result' = "none"
        /\ clean' = FALSE
        /\ ResetLocals
        /\ UNCHANGED <<fs, unreadable, settings, now, pc, fs_changed, change>>
        /\ UNCHANGED <<controllerVars, parserVars, authVars>>

(***************************************************************************)
(* FileScanner.scan_folders, one store mutation at a time.                 *)
(***************************************************************************)
\* scan_folders up to the set updated_paths of _process_updates.
StartScan ==
    /\ WorkerAlive
    /\ pc = "idle"
    /\ now < MaxRuns
    /\ LET found == scan_filesystem(scan_folders, exclude_folders,
                                    target_extensions_of(scan_extensions))
           db == get_db_books(get_all_books)
       IN /\ found_files_by_hash' = found.by_hash
          /\ found_files_by_path' = found.by_path
          /\ db_books' = get_all_books
          /\ db_books_by_path' = db.by_path
          /\ current_db_books_by_hash' = db.by_hash
          /\ updated_paths' = UpdatedPaths(found.by_path, db.by_path)
    /\ now' = now + 1
    /\ pc' = "updates"
    /\ result' = "none"
    /\ clean' = ~fs_changed
    /\ moved_hashes_to_process' = {}
    /\ new_hashes' = {}
    /\ deleted_hashes' = {}
    /\ ops' = <<>>
    /\ events' = start_events
    /\ UNCHANGED <<fs, unreadable, settings, books, edits, fs_changed, change>>
    /\ WorkerBegins

\* The run ends on the exception of a store operation.
Abort ==
    /\ pc' = "idle"
    /\ result' = "failed"
    /\ fs_changed' = TRUE

\* _process_updates: one turn of the loop over updated_paths.
ProcessUpdate ==
    /\ WorkerAlive
    /\ pc = "updates"
    /\ \E path \in updated_paths :
         LET old_book == db_books_by_path[path]
             new_hash == found_files_by_path[path]
             done == update_book_hash(books, old_book.file_hash, new_hash, path)
         IN /\ ops' = Append(ops, Op("update_book_hash", old_book.file_hash, new_hash,
                                     path, NoBook, done.ok))
            /\ books' = done.rows
            /\ events' = events \o op_events("update_book_hash", old_book.file_hash, done.ok)
            /\ IF done.ok
               THEN /\ current_db_books_by_hash' =
                          PruneUpdated(current_db_books_by_hash, old_book, new_hash)
                    /\ updated_paths' = updated_paths \ {path}
                    /\ UNCHANGED <<pc, result, fs_changed>>
               ELSE /\ Abort
                    /\ UNCHANGED <<current_db_books_by_hash, updated_paths>>
    /\ UNCHANGED <<fs, unreadable, settings, now, edits, clean, change, db_books,
                   found_files_by_hash, found_files_by_path, db_books_by_path,
                   moved_hashes_to_process, new_hashes, deleted_hashes>>
    /\ WorkerSteps

\* _process_moves_adds_deletes up to its first loop.
Classify ==
    /\ WorkerAlive
    /\ pc = "updates"
    /\ updated_paths = {}
    /\ pc' = "sync"
    /\ deleted_hashes' = DeletedHashes(found_files_by_hash, current_db_books_by_hash)
    /\ new_hashes' = NewHashes(found_files_by_hash, current_db_books_by_hash)
    /\ moved_hashes_to_process' = MovedHashes(found_files_by_hash, current_db_books_by_hash)
    /\ UNCHANGED <<fs, unreadable, settings, books, now, edits, result, clean, fs_changed, change,
                   db_books, found_files_by_hash, found_files_by_path, db_books_by_path,
                   current_db_books_by_hash, updated_paths, ops, events>>
    /\ WorkerSteps

\* One turn of the loop over moved_hashes_to_process.
ProcessMove ==
    /\ WorkerAlive
    /\ pc = "sync"
    /\ SyncPhase(moved_hashes_to_process, new_hashes, deleted_hashes) = "moves"
    /\ \E h \in moved_hashes_to_process :
         LET done == update_book_path(books, h, found_files_by_hash[h])
         IN /\ ops' = Append(ops, Op("update_book_path", h, "", found_files_by_hash[h],
                                     NoBook, done.ok))
            /\ books' = done.rows
            /\ events' = events \o op_events("update_book_path", h, done.ok)
            /\ moved_hashes_to_process' = moved_hashes_to_process \ {h}
            /\ new_hashes' = new_hashes \ {h}
    /\ UNCHANGED <<fs, unreadable, settings, now, edits, pc, result, clean, fs_changed, change,
                   db_books, found_files_by_hash, found_files_by_path, db_books_by_path,
                   current_db_books_by_hash, updated_paths, deleted_hashes>>
    /\ WorkerSteps

\* One turn of the loop over new_hashes.
ProcessNew ==
    /\ WorkerAlive
    /\ pc = "sync"
    /\ SyncPhase(moved_hashes_to_process, new_hashes, deleted_hashes) = "inserts"
    /\ \E h \in new_hashes :
         LET book_info == NewBook(found_files_by_hash[h], h, now)
             done == save_book(books, book_info)
         IN /\ ops' = Append(ops, Op("save_book", h, "", book_info.file_path,
                                     book_info, done.ok))
            /\ books' = done.rows
            /\ events' = events \o op_events("save_book", h, done.ok)
            /\ IF done.ok
               THEN /\ new_hashes' = new_hashes \ {h}
                    /\ UNCHANGED <<pc, result, fs_changed>>
               ELSE /\ Abort
                    /\ UNCHANGED new_hashes
    /\ UNCHANGED <<fs, unreadable, settings, now, edits, clean, change,
                   db_books, found_files_by_hash, found_files_by_path, db_books_by_path,
                   current_db_books_by_hash, updated_paths, moved_hashes_to_process,
                   deleted_hashes>>
    /\ WorkerSteps

\* One turn of the loop over deleted_hashes.
ProcessDelete ==
    /\ WorkerAlive
    /\ pc = "sync"
    /\ SyncPhase(moved_hashes_to_process, new_hashes, deleted_hashes) = "deletes"
    /\ \E h \in deleted_hashes :
         LET done == delete_book(books, h)
         IN /\ ops' = Append(ops, Op("delete_book", h, "", None, NoBook, done.ok))
            /\ books' = done.rows
            /\ events' = events \o op_events("delete_book", h, done.ok)
            /\ deleted_hashes' = deleted_hashes \ {h}
    /\ UNCHANGED <<fs, unreadable, settings, now, edits, pc, result, clean, fs_changed, change,
                   db_books, found_files_by_hash, found_files_by_path, db_books_by_path,
                   current_db_books_by_hash, updated_paths, moved_hashes_to_process,
                   new_hashes>>
    /\ WorkerSteps

\* The end of scan_folders: the finished signal.
Finish ==
    /\ WorkerAlive
    /\ pc = "sync"
    /\ SyncPhase(moved_hashes_to_process, new_hashes, deleted_hashes) = "finish"
    /\ pc' = "idle"
    /\ result' = "completed"
    /\ fs_changed' = FALSE
    /\ events' = events \o finish_events
    /\ UNCHANGED <<fs, unreadable, settings, books, now, edits, clean, change, runLocals>>
    /\ WorkerReturns

Next ==
    \/ WriteFile
    \/ DeleteFile
    \/ MoveFile
    \/ ChmodFile
    \/ EditBook
    \/ StartScan
    \/ ProcessUpdate
    \/ Classify
    \/ ProcessMove
    \/ ProcessNew
    \/ ProcessDelete
    \/ Finish

Spec == Init /\ [][Next]_vars

(***************************************************************************)
(* The same program on a store whose operations may fail for reasons of    *)
(* their own (disk full, database locked): sqlite3 raises out of the       *)
(* DatabaseManager method, which nothing in scan_folders catches.          *)
(***************************************************************************)
\* The rows a failure rolls the store back to: those of the start of the run.
AfterFailureRollback(rows_at_start, rows_committed) == rows_at_start

\* The rows of the store after an operation of the run has raised: every
\* operation before it ran on a connection of its own and committed.
AfterFailure(rows_at_start, rows_committed) == rows_committed

\* The store operation the run is about to issue.
PendingOps ==
    IF pc = "updates"
    THEN {Op("update_book_hash", db_books_by_path[path].file_hash,
             found_files_by_path[path], path, NoBook, FALSE) : path \in updated_paths}
    ELSE IF pc # "sync" THEN {}
    ELSE LET phase == SyncPhase(moved_hashes_to_process, new_hashes, deleted_hashes)
         IN IF phase = "moves"
            THEN {Op("update_book_path", h, "", found_files_by_hash[h], NoBook, FALSE) :
                    h \in moved_hashes_to_process}
            ELSE IF phase = "inserts"
            THEN {Op("save_book", h, "", found_files_by_hash[h],
                     NewBook(found_files_by_hash[h], h, now), FALSE) : h \in new_hashes}
            ELSE IF phase = "deletes"
            THEN {Op("delete_book", h, "", None, NoBook, FALSE) : h \in deleted_hashes}
            ELSE {}

\* The next store operation raises and the exception leaves scan_folders.
StoreFailure ==
    \E o \in PendingOps :
        /\ ops' = Append(ops, o)
        /\ events' = events \o op_events(o.op, o.h, FALSE)
        /\ books' = AfterFailure(db_books, books)
        /\ Abort
        /\ UNCHANGED <<fs, unreadable, settings, now, edits, clean, change, db_books,
                       found_files_by_hash, found_files_by_path, db_books_by_path,
                       current_db_books_by_hash, updated_paths, moved_hashes_to_process,
                       new_hashes, deleted_hashes>>
        /\ WorkerAlive
        /\ WorkerSteps

NextFail ==
    \/ Next
    \/ StoreFailure

SpecFail == Init /\ [][NextFail]_vars

(***************************************************************************)
(* The same program under the settings of the settings window: extension   *)
(* filters, excluded folders and scan roots that the user saves and        *)
(* changes between runs.                                                   *)
(***************************************************************************)
ExtCbzZip == <<"c", "b", "z", ",", " ", "Z", "I", "P">>
ExtComma == <<",">>
ExtTxt == <<"t", "x", "t">>

\* What _save_settings may write: scan roots, excluded folders, scan_extensions.
FilterSettings ==
    { [folders |-> <<DirLib>>, exclude |-> <<>>, extensions |-> Some(ExtCbzZip)],
      [folders |-> <<DirLib>>, exclude |-> <<>>, extensions |-> Some(ExtComma)],
      [folders |-> <<DirLib>>, exclude |-> <<>>, extensions |-> Some(ExtTxt)],
      [folders |-> <<DirLib>>, exclude |-> <<>>, extensions |-> Some(<<>>)],
      [folders |-> <<DirLib>>, exclude |-> <<DirSub>>, extensions |-> None],
      [folders |-> <<DirLib, DirSub>>, exclude |-> <<DirSub>>, extensions |-> None],
      [folders |-> <<DirLib>>, exclude |-> <<DirLib>>, extensions |-> None],
      [folders |-> <<DirSub>>, exclude |-> <<DirLib>>, extensions |-> Some(ExtTxt)] }

\* The three files are on disk at the first start.
InitFilter ==
    /\ fs \in [Paths -> InitialContent]
    /\ fs[PathJoin(DirLib, NameA)] = "h1"
    /\ fs[PathJoin(DirLib, NameB)] = "h2"
    /\ unreadable = {}
    /\ \E saved \in FilterSettings :
          /\ scan_folders = saved.folders
          /\ exclude_folders = saved.exclude
          /\ scan_extensions = saved.extensions
    /\ books = <<>>
    /\ now = 0
    /\ edits = 0
    /\ pc = "idle"
    /\ result = "none"
    /\ clean = FALSE
    /\ fs_changed = TRUE
    /\ change = OtherChange
    /\ NoLocals
    /\ Standalone
    /\ NoAuth
    /\ NoParser

\* The library and the directory beside it are both scan folders, one of
\* them may be excluded; a file is in the directory beside the library.
InitPrefix ==
    /\ fs \in [Paths \cup {PathOther} -> InitialContent \cup {NoFile}]
    /\ fs[PathJoin(DirLib, NameA)] = "h1"
    /\ fs[PathJoin(DirSub, NameC)] = NoFile
    /\ fs[PathOther] # NoFile
    /\ unreadable = {}
    /\ scan_folders = <<DirLib, DirOther>>
    /\ exclude_folders \in {<<>>, <<DirLib>>, <<DirOther>>}
    /\ scan_extensions = None
    /\ books = <<>>
    /\ now = 0
    /\ edits = 0
    /\ pc = "idle"
    /\ result = "none"
    /\ clean = FALSE
    /\ fs_changed = TRUE
    /\ change = OtherChange
    /\ NoLocals
    /\ Standalone
    /\ NoAuth
    /\ NoParser

SpecPrefix == InitPrefix /\ [][Next]_vars

\* ApplicationController._save_settings: the user saves other settings.
SaveSettings ==
    \E saved \in FilterSettings :
        /\ pc = "idle"
        /\ <<saved.folders, saved.exclude, saved.extensions>> # settings
        /\ scan_folders' = saved.folders
        /\ exclude_folders' = saved.exclude
        /\ scan_extensions' = saved.extensions
        /\ edits < MaxEdits
        /\ edits' = edits + 1
        /\ fs_changed' = TRUE
        /\ change' = OtherChange
        /\ result' = "none"
        /\ clean' = FALSE
        /\ ResetLocals
        /\ UNCHANGED <<fs, unreadable, books, now, pc>>
        /\ settings_open' = FALSE
        /\ UNCHANGED <<controllerVars, parserVars, password_hash, is_private_mode,
                       list_loads, auth_steps, last_auth>>

NextFilter ==
    \/ Next
    \/ SaveSettings

SpecFilter == InitFilter /\ [][NextFilter]_vars

(***************************************************************************)
(* The same program under ApplicationController (main.py): sync requests   *)
(* start the scanner on a worker thread, the finished signal comes back to *)
(* the main thread.                                                        *)
(***************************************************************************)
\* The controller has been constructed; two files are on disk.
InitCtl ==
    /\ fs \in [Paths -> InitialContent \cup {NoFile}]
    /\ fs[PathJoin(DirLib, NameA)] = "h1"
    /\ fs[PathJoin(DirLib, NameB)] # NoFile
    /\ fs[PathJoin(DirSub, NameC)] # "h1"
    /\ unreadable = {}
    /\ scan_folders = <<DirLib>>
    /\ exclude_folders = <<>>
    /\ scan_extensions = None
    /\ books = <<>>
    /\ now = 0
    /\ edits = 0
    /\ pc = "idle"
    /\ result = "none"
    /\ clean = FALSE
    /\ fs_changed = TRUE
    /\ change = OtherChange
    /\ NoLocals
    /\ attached = TRUE
    /\ alive = TRUE
    /\ worker_thread = "none"
    /\ queued = 0
    /\ finished_emitted = FALSE
    /\ sync_button_enabled = TRUE
    /\ status_message = MsgNone
    /\ notification = "none"
    /\ NoAuth
    /\ NoParser

\* The test of run_scan_and_refresh finds no thread at work, whatever runs.
ScanInProgressNever(thread) == FALSE

\* run_scan_and_refresh: self.worker_thread and self.worker_thread.isRunning()
ScanInProgress(thread) == thread = "running"

\* ApplicationController.run_scan_and_refresh, the slot of sync_requested.
RequestSync ==
    /\ attached
    /\ alive
    /\ IF ScanInProgress(worker_thread)
       THEN /\ status_message' = MsgAlreadyRunning
            /\ sync_button_enabled' = TRUE
            /\ UNCHANGED <<worker_thread, queued, notification>>
       ELSE /\ now + queued < MaxRuns
            /\ status_message' = MsgPreparing
            /\ sync_button_enabled' = FALSE
            /\ worker_thread' = "running"
            /\ queued' = queued + 1
            /\ notification' = "none"
    /\ UNCHANGED <<scannerVars, attached, alive, finished_emitted, parserVars, authVars>>

\* ApplicationController._on_scan_finished, the slot of ScannerWorker.finished.
OnScanFinished ==
    /\ attached
    /\ alive
    /\ finished_emitted
    /\ finished_emitted' = FALSE
    /\ status_message' = MsgRefreshed
    /\ sync_button_enabled' = TRUE
    /\ worker_thread' = "none"
    /\ notification' = "finished"
    /\ UNCHANGED <<scannerVars, attached, alive, queued, parserVars, authVars>>

NextCtl ==
    \/ Next
    \/ StoreFailure
    \/ RequestSync
    \/ OnScanFinished

SpecCtl == InitCtl /\ [][NextCtl]_vars

(***************************************************************************)
(* core/parser.py on its own: a FileNameParser built over a rule list, as  *)
(* the controller and the tests build it, and its parse_filename calls.    *)
(***************************************************************************)
Reverse(seq) == [i \in 1..Len(seq) |-> seq[Len(seq) + 1 - i]]

\* The rule lists a FileNameParser is built over: the built-in rules, the
\* rules of the tests, the same lists in another order, no rule at all, a
\* rule of the user's.
RuleLists ==
    {hardcoded_rules, Reverse(hardcoded_rules), sample_rules, Reverse(sample_rules), <<>>,
     user_rules}

\* '[Yamada] Story 1巻.cbz'
NameYamada == <<"[", "Y", "]", " ", "S", " ", "1", "K", ".", "c", "b", "z">>

\* '.cbz' and 'S.': nothing before the dot, nothing after it.
NameDotfile == <<".", "c", "b", "z">>
NameTrailingDot == <<"S", ".">>

\* File names: [author] title, a volume with or without 第 and 巻, (author),
\* the magazine marker, an extension.
Filenames ==
    {NameYamada, NameA, NameB, NameC, NameDotfile, NameTrailingDot} \cup
    { pre \o <<"S">> \o sp \o dai \o vol \o kan \o par \o mag \o ext :
        pre \in {<<>>, <<"[", "Y", "]", " ">>},
        sp \in {<<>>, <<" ">>},
        dai \in {<<>>, <<"D">>},
        vol \in {<<>>, <<"1">>, <<"1", "2">>},
        kan \in {<<>>, <<"K">>},
        par \in {<<>>, <<" ", "(", "Y", ")">>},
        mag \in {<<>>, <<" ", "(", "M", ")">>},
        ext \in {<<>>, <<".", "c", "b", "z">>} }

\* The names of the calls that follow the first one on a parser.
RepeatedNames == {NameYamada, NameA, NameB, NameC}

\* FileNameParser(rules): nothing parsed yet; no scanner at work.
InitParse ==
    /\ fs = [p \in Paths |-> NoFile]
    /\ unreadable = {}
    /\ scan_folders = <<DirLib>>
    /\ exclude_folders = <<>>
    /\ scan_extensions = None
    /\ books = <<>>
    /\ now = 0
    /\ edits = 0
    /\ pc = "idle"
    /\ result = "none"
    /\ clean = FALSE
    /\ fs_changed = TRUE
    /\ change = OtherChange
    /\ NoLocals
    /\ Standalone
    /\ NoAuth
    /\ given_rules \in {Some(rules) : rules \in RuleLists}
    /\ self_rules = FileNameParser(given_rules[1])
    /\ last_filename = None
    /\ last_book = NoBook
    /\ parse_calls = 0
    /\ rules_file = None
    /\ loaded = None

\* FileNameParser.parse_filename(filename): it reads self.rules and assigns
\* nothing.  A parser is called once on any name of Filenames, or several
\* times on names of RepeatedNames.
ParseFilename ==
    \E filename \in Filenames :
        /\ given_rules # None
        /\ parse_calls < MaxCalls
        /\ parse_calls > 0 => {filename, last_filename[1]} \subseteq RepeatedNames
        /\ last_filename' = Some(filename)
        /\ last_book' = parse_filename(self_rules, filename)
        /\ parse_calls' = parse_calls + 1
        /\ UNCHANGED <<scannerVars, controllerVars, self_rules, given_rules,
                       rules_file, loaded, authVars>>

NextParse == ParseFilename

SpecParse == InitParse /\ [][NextParse]_vars

(***************************************************************************)
(* The rules on their way to the parser, as ApplicationController.__init__ *)
(* has it: ParsingRuleLoader.load_rules(), then FileNameParser(rules).     *)
(***************************************************************************)
\* A rule of the file that states no priority.
rule_without_priority ==
    [name |-> "nopriority", regex |-> <<Bol, Rep("any", 1, TRUE, Some("title"))>>]

\* The rules a rules file is written from: two of priority 1, one of
\* priority 2, one of priority 999 and one of no priority.
RulePool ==
    {hardcoded_rules[1], hardcoded_rules[2], user_rules[1], sample_rules[3],
     rule_without_priority}

RECURSIVE ListsUpTo(_, _)
ListsUpTo(S, n) ==
    IF n = 0 THEN {<<>>}
    ELSE LET shorter == ListsUpTo(S, n - 1)
         IN shorter \cup {Append(l, x) : l \in shorter, x \in S}

\* config/parsing_rules.json: missing, or a list of rules in any order.
RuleFiles == {None} \cup {Some(l) : l \in ListsUpTo(RulePool, MaxFileRules)}

InitLoad ==
    /\ fs = [p \in Paths |-> NoFile]
    /\ unreadable = {}
    /\ scan_folders = <<DirLib>>
    /\ exclude_folders = <<>>
    /\ scan_extensions = None
    /\ books = <<>>
    /\ now = 0
    /\ edits = 0
    /\ pc = "idle"
    /\ result = "none"
    /\ clean = FALSE
    /\ fs_changed = TRUE
    /\ change = OtherChange
    /\ NoLocals
    /\ Standalone
    /\ NoAuth
    /\ rules_file \in RuleFiles
    /\ loaded = None
    /\ given_rules = None
    /\ self_rules = <<>>
    /\ last_filename = None
    /\ last_book = NoBook
    /\ parse_calls = 0

\* self.rule_loader.load_rules()
LoadRules ==
    /\ loaded = None
    /\ loaded' = Some(load_rules(rules_file))
    /\ UNCHANGED <<scannerVars, controllerVars, self_rules, last_filename, last_book,
                   given_rules, parse_calls, rules_file, authVars>>

\* self.parser = FileNameParser(<the rules loaded>)
BuildParser ==
    /\ loaded # None
    /\ given_rules = None
    /\ given_rules' = loaded
    /\ self_rules' = FileNameParser(loaded[1])
    /\ UNCHANGED <<scannerVars, controllerVars, last_filename, last_book,
                   parse_calls, rules_file, loaded, authVars>>

NextLoad ==
    \/ LoadRules
    \/ BuildParser

SpecLoad == InitLoad /\ [][NextLoad]_vars

(***************************************************************************)
(* Passwords, private mode and the settings window.                        *)
(***************************************************************************)

\* The requests handled in one behaviour.
MaxAuthSteps == 3

\* What a password dialog can give: nothing typed, or one of two passwords.
Passwords == {"", "p1", "p2"}

\* secrets.token_hex(16)
Salts == {"s1", "s2"}

\* hashlib.sha256(text).hexdigest(), text being a password followed by a salt of
\* fixed length: one digest for each pair, different pairs taken to differ.
Sha256(password, salt) == <<password, salt>>

\* hash_password, given the salt it draws: the stored "salt:hash".
hash_password(password, salt) == [salt |-> salt, hash |-> Sha256(password, salt)]

\* verify_password
verify_password(stored_password, provided_password) ==
    IF stored_password = None \/ provided_password = ""
    THEN FALSE
    ELSE stored_password[1].hash = Sha256(provided_password, stored_password[1].salt)

\* _can_enter_private_mode lets an accepted dialog through without verifying.
can_enter_private_mode_unverified(stored, dialog, password) ==
    IF stored = None
    THEN TRUE
    ELSE dialog = "accepted"

\* ApplicationController._can_enter_private_mode, given how the dialog ends.
can_enter_private_mode(stored, dialog, password) ==
    IF stored = None
    THEN TRUE
    ELSE IF dialog # "accepted"
         THEN FALSE
         ELSE verify_password(stored, password)

\* _update_password_in_db without the test of an empty new password.
update_password_in_db_any(current_hash, old_password, new_password, salt, save_ok) ==
    IF current_hash # None /\ ~verify_password(current_hash, old_password)
    THEN [ok |-> FALSE, hash |-> current_hash]
    ELSE IF save_ok
         THEN [ok |-> TRUE, hash |-> Some(hash_password(new_password, salt))]
         ELSE [ok |-> FALSE, hash |-> current_hash]

\* ApplicationController._update_password_in_db: what it returns and the hash stored
\* afterwards; save_ok is FALSE when hash_password or set_setting raises.
update_password_in_db(current_hash, old_password, new_password, salt, save_ok) ==
    IF new_password = ""
    THEN [ok |-> FALSE, hash |-> current_hash]
    ELSE IF current_hash # None /\ ~verify_password(current_hash, old_password)
         THEN [ok |-> FALSE, hash |-> current_hash]
         ELSE IF save_ok
              THEN [ok |-> TRUE, hash |-> Some(hash_password(new_password, salt))]
              ELSE [ok |-> FALSE, hash |-> current_hash]

\* ApplicationController.toggle_private_mode; load_books_to_list reads the store
\* through get_books_for_display and shows what it returns.
TogglePrivateMode ==
    /\ auth_steps < MaxAuthSteps
    /\ auth_steps' = auth_steps + 1
    /\ IF is_private_mode
       THEN /\ is_private_mode' = FALSE
            /\ list_loads' = list_loads + 1
            /\ last_auth' = AuthRecord("toggle", password_hash, "none", "none", "",
                                       FALSE, FALSE)
       ELSE IF password_hash = None
            THEN /\ can_enter_private_mode(password_hash, "none", "")
                 /\ is_private_mode' = TRUE
                 /\ list_loads' = list_loads + 1
                 /\ last_auth' = AuthRecord("toggle", password_hash, "none", "none", "",
                                            FALSE, FALSE)
            ELSE \E dialog \in {"accepted", "rejected"}, password \in Passwords :
                    /\ IF can_enter_private_mode(password_hash, dialog, password)
                       THEN /\ is_private_mode' = TRUE
                            /\ list_loads' = list_loads + 1
                       ELSE UNCHANGED <<is_private_mode, list_loads>>
                    /\ last_auth' = AuthRecord("toggle", password_hash, "none", dialog,
                                               IF dialog = "accepted" THEN password ELSE "",
                                               FALSE, FALSE)
    /\ UNCHANGED <<password_hash, settings_open>>
    /\ UNCHANGED <<scannerVars, controllerVars, parserVars>>

\* ApplicationController.authenticate_and_open_settings
AuthenticateAndOpenSettings ==
    /\ auth_steps < MaxAuthSteps
    /\ auth_steps' = auth_steps + 1
    /\ IF password_hash # None
       THEN \E dialog \in {"accepted", "rejected"}, password \in Passwords :
               LET opened == dialog = "accepted" /\ verify_password(password_hash, password)
               IN  /\ settings_open' = (settings_open \/ opened)
                   /\ last_auth' = AuthRecord("settings", password_hash, "none", dialog,
                                              IF dialog = "accepted" THEN password ELSE "",
                                              FALSE, opened)
                   /\ UNCHANGED password_hash
       ELSE \E reply \in {"ok", "cancel"} :
               IF reply # "ok"
               THEN /\ last_auth' = AuthRecord("settings", password_hash, reply, "none", "",
                                               FALSE, FALSE)
                    /\ UNCHANGED <<password_hash, settings_open>>
               ELSE \E dialog \in {"accepted", "rejected"} :
                       IF dialog # "accepted"
                       THEN /\ last_auth' = AuthRecord("settings", password_hash, reply,
                                                       dialog, "", FALSE, FALSE)
                            /\ UNCHANGED <<password_hash, settings_open>>
                       ELSE \E new_password \in Passwords, salt \in Salts,
                               save_ok \in BOOLEAN :
                               LET done == update_password_in_db(password_hash, "",
                                               new_password, salt, save_ok)
                               IN  /\ password_hash' = done.hash
                                   /\ settings_open' = (settings_open \/ done.ok)
                                   /\ last_auth' = AuthRecord("settings", password_hash,
                                                       reply, dialog, new_password,
                                                       done.ok, done.ok)
    /\ UNCHANGED <<is_private_mode, list_loads>>
    /\ UNCHANGED <<scannerVars, controllerVars, parserVars>>

\* ApplicationController.change_password, the slot of the settings window's
\* change_password_requested.
ChangePassword ==
    /\ settings_open
    /\ auth_steps < MaxAuthSteps
    /\ auth_steps' = auth_steps + 1
    /\ \E old_dialog \in {"accepted", "rejected"}, old_password \in Passwords :
          LET asked == password_hash # None
              first == IF asked THEN old_dialog ELSE "none"
              old == IF asked /\ old_dialog = "accepted" THEN old_password ELSE ""
          IN  IF asked /\ old_dialog # "accepted"
              THEN /\ last_auth' = AuthRecord("change", password_hash, "none", first, old,
                                              FALSE, FALSE)
                   /\ UNCHANGED password_hash
              ELSE \E new_dialog \in {"accepted", "rejected"} :
                      IF new_dialog # "accepted"
                      THEN /\ last_auth' = AuthRecord("change", password_hash, "none",
                                                      first, old, FALSE, FALSE)
                           /\ UNCHANGED password_hash
                      ELSE \E new_password \in Passwords, salt \in Salts,
                              save_ok \in BOOLEAN :
                              LET done == update_password_in_db(password_hash, old,
                                              new_password, salt, save_ok)
                              IN  /\ password_hash' = done.hash
                                  /\ last_auth' = AuthRecord("change", password_hash,
                                                      "none", first, old, done.ok, FALSE)
    /\ UNCHANGED <<is_private_mode, settings_open, list_loads>>
    /\ UNCHANGED <<scannerVars, controllerVars, parserVars>>

\* The application starts on a store that holds no password or one set earlier.
InitAuth ==
    /\ fs = [p \in Paths |-> NoFile]
    /\ unreadable = {}
    /\ scan_folders = <<DirLib>>
    /\ exclude_folders = <<>>
    /\ scan_extensions = None
    /\ books = <<>>
    /\ now = 0
    /\ edits = 0
    /\ pc = "idle"
    /\ result = "none"
    /\ clean = FALSE
    /\ fs_changed = TRUE
    /\ change = OtherChange
    /\ NoLocals
    /\ Standalone
    /\ NoParser
    /\ password_hash \in {None} \cup
           {Some(hash_password(password, salt)) : password \in Passwords \ {""},
                                                  salt \in Salts}
    /\ is_private_mode = FALSE
    /\ settings_open = FALSE
    /\ list_loads = 0
    /\ auth_steps = 0
    /\ last_auth = NoRequest

NextAuth ==
    \/ TogglePrivateMode
    \/ AuthenticateAndOpenSettings
    \/ ChangePassword
    \/ SaveSettings

SpecAuth == InitAuth /\ [][NextAuth]_vars

TypeOK ==
    /\ pc \in {"idle", "updates", "sync"}
    /\ result \in {"none", "completed", "failed"}
    /\ \A i \in 1..Len(books) : books[i].file_hash \in Hashes /\ books[i].file_path \in Paths

(***************************************************************************)
(* Properties of a reconciliation run.                                     *)
(***************************************************************************)
\* scan_folders has returned normally and nothing has changed since.
Completed == pc = "idle" /\ result = "completed"

OpsNamed(name) == {i \in 1..Len(ops) : ops[i].op = name}

\* The hashes the store held when the update pass of the run was over.
PrunedDbHashes ==
    (StoreHashes(db_books) \ {ops[i].h : i \in OpsNamed("update_book_hash")})
        \cup {ops[i].h2 : i \in OpsNamed("update_book_hash")}

RowsWithHash(h) == {i \in 1..Len(books) : books[i].file_hash = h}

\* C1: a run that starts right after a completed run, with no change of the
\* filesystem or the settings in between, issues no store mutation at all.
C1_Idempotence == clean => ops = <<>>

C1_Witness == clean /\ Completed /\ Len(books) >= 2

\* C2: when a run has completed, the stored hashes are exactly the hashes
\* of the accepted readable files, and every record's path holds a file
\* with the record's hash.
C2_Convergence ==
    Completed =>
        /\ StoreHashes(books) = {fs[p] : p \in ReadableAccepted}
        /\ \A i \in 1..Len(books) :
              /\ books[i].file_path \in ReadableAccepted
              /\ fs[books[i].file_path] = books[i].file_hash

C2_Witness ==
    /\ Completed
    /\ db_books # <<>>
    /\ Len(ops) >= 2
    /\ books # <<>>

\* C3: no two records of the store ever share a file_hash.
C3_UniqueHash ==
    \A i \in 1..Len(books) : \A j \in 1..Len(books) :
        i # j => books[i].file_hash # books[j].file_hash

C3_Witness ==
    /\ Len(books) >= 2
    /\ result = "failed"
    /\ \E i \in 1..Len(ops) : ~ops[i].ok

\* C4: when a run has completed, every record that was stored with hash H1
\* at path P, where the file at P now hashes to H2 # H1, has hash H2, is
\* still at path P and has the metadata it had.
C4_MetadataPreservedOnChange ==
    Completed =>
        \A k \in 1..Len(db_books) :
            LET b == db_books[k]
                P == b.file_path
            IN (P \in DOMAIN found_files_by_path /\ found_files_by_path[P] # b.file_hash) =>
                  \E i \in 1..Len(books) :
                      /\ books[i].file_hash = found_files_by_path[P]
                      /\ books[i].file_path = P
                      /\ Metadata(books[i]) = Metadata(b)

Touched(o) == IF o.op = "update_book_hash" THEN {o.h, o.h2} ELSE {o.h}

\* C6: the operations of a run of different kinds (content update, move,
\* insert, delete) touch disjoint hashes.
C6_Partition ==
    \A i \in 1..Len(ops) : \A j \in 1..Len(ops) :
        ops[i].op # ops[j].op => Touched(ops[i]) \cap Touched(ops[j]) = {}

\* C7: a completed run has issued delete_book exactly once for each hash
\* the store held after the update pass that no found file has, the
\* records are gone, and no record is left when no file is left.
C7_Deletion ==
    Completed =>
        /\ {ops[i].h : i \in OpsNamed("delete_book")} =
              {h \in PrunedDbHashes : h \notin DOMAIN found_files_by_hash}
        /\ \A i \in OpsNamed("delete_book") : \A j \in OpsNamed("delete_book") :
              ops[i].h = ops[j].h => i = j
        /\ \A i \in OpsNamed("delete_book") : RowsWithHash(ops[i].h) = {}
        /\ (\A p \in Paths : fs[p] = NoFile) => books = <<>>

C7_Witness ==
    /\ Completed
    /\ db_books # <<>>
    /\ \A p \in Paths : fs[p] = NoFile
    /\ OpsNamed("delete_book") # {}
    /\ books = <<>>

\* C8: a completed run has issued save_book exactly once for each found
\* hash the store did not hold after the update pass; the record saved is
\* the parse of the base name of the discovered path, with that path, that
\* hash and the time of the run, and it is in the store.
C8_Insertion ==
    Completed =>
        /\ {ops[i].h : i \in OpsNamed("save_book")} =
              {h \in DOMAIN found_files_by_hash : h \notin PrunedDbHashes}
        /\ \A i \in OpsNamed("save_book") : \A j \in OpsNamed("save_book") :
              ops[i].h = ops[j].h => i = j
        /\ \A i \in OpsNamed("save_book") :
              LET o == ops[i]
              IN /\ o.path \in ReadableAccepted
                 /\ fs[o.path] = o.h
                 /\ o.path = found_files_by_hash[o.h]
                 /\ o.book.file_path = o.path
                 /\ o.book.file_hash = o.h
                 /\ o.book.created_at = now
                 /\ Metadata(o.book) = Metadata(parse_filename(parser_rules, Basename(o.path)))
                 /\ \E r \in RowsWithHash(o.h) : books[r] = o.book

C8_Witness ==
    /\ Completed
    /\ \E i \in OpsNamed("save_book") :
          ops[i].book.author # None /\ ops[i].book.title # Some(Basename(ops[i].path))
    /\ \E i \in OpsNamed("save_book") : ops[i].book.author = None

\* The place of an operation in the order updates, moves, inserts, deletes.
Rank(name) ==
    CASE name = "update_book_hash" -> 1
      [] name = "update_book_path" -> 2
      [] name = "save_book" -> 3
      [] name = "delete_book" -> 4

\* C9: in a run every update_book_hash comes before every update_book_path,
\* every update_book_path before every save_book and every save_book before
\* every delete_book.
C9_Order ==
    \A i \in 1..Len(ops) : \A j \in 1..Len(ops) :
        i < j => Rank(ops[i].op) <= Rank(ops[j].op)

C9_Witness ==
    /\ Completed
    /\ \E i \in OpsNamed("save_book") : \E j \in OpsNamed("delete_book") : i < j

\* The position of the last file of the walk that has hash h.
LastWalked(h) ==
    LET I == {i \in 1..Len(AcceptedFiles) :
                AcceptedFiles[i] \notin unreadable /\ fs[AcceptedFiles[i]] = h}
    IN AcceptedFiles[CHOOSE i \in I : \A j \in I : j <= i]

\* The hashes that two or more accepted readable files have.
DuplicatedHashes ==
    {h \in Hashes : Cardinality({p \in ReadableAccepted : fs[p] = h}) >= 2}

\* C10: a completed run over an empty store leaves, for a hash that two or
\* more files have, exactly one record, at the last of these files in the walk.
C10_Duplicate ==
    (Completed /\ db_books = <<>>) =>
        \A h \in DuplicatedHashes :
            /\ Cardinality(RowsWithHash(h)) = 1
            /\ \A i \in RowsWithHash(h) :
                  /\ fs[books[i].file_path] = h
                  /\ books[i].file_path = LastWalked(h)

C10_Witness ==
    /\ Completed
    /\ db_books = <<>>
    /\ DuplicatedHashes # {}
    /\ Len(books) >= 2

\* C11: after a completed run that recorded two files of equal bytes as one
\* record, one of the two is removed and nothing else changes; the next run
\* issues no delete_book, leaves one record of that hash at a surviving file,
\* by exactly one update_book_path if the record pointed at the removed copy
\* and by no store operation at all otherwise.
C11_DuplicateSurvivor ==
    (Completed /\ ~clean /\ change.kind = "delete" /\ change.duplicate) =>
        LET H == change.hash
            before == {j \in 1..Len(db_books) : db_books[j].file_hash = H}
        IN /\ before # {}
           /\ OpsNamed("delete_book") = {}
           /\ Cardinality(RowsWithHash(H)) = 1
           /\ \A i \in RowsWithHash(H) :
                 /\ books[i].file_path \in ReadableAccepted
                 /\ fs[books[i].file_path] = H
                 /\ \A j \in before :
                       IF db_books[j].file_path = change.path
                       THEN /\ Len(ops) = 1
                            /\ ops[1].op = "update_book_path"
                            /\ ops[1].h = H
                            /\ ops[1].path = books[i].file_path
                            /\ ops[1].ok
                       ELSE /\ ops = <<>>
                            /\ books = db_books

\* The record pointed at the removed copy and the run has moved it.
C11_Witness ==
    /\ Completed /\ ~clean /\ change.kind = "delete" /\ change.duplicate
    /\ Len(ops) = 1
    /\ \E j \in 1..Len(db_books) :
          db_books[j].file_hash = change.hash /\ db_books[j].file_path = change.path

(***************************************************************************)
(* Properties of the walk.                                                 *)
(***************************************************************************)
\* The locals of a run are there: a run is in progress or has ended.
ScanRan == pc # "idle" \/ result # "none"

\* The directory a path lies in, and the directories the scan roots reach.
DirOf(p) == SubSeq(p, 1, LastIndexOf(p, "/") - 1)
WalkedDirs ==
    UNION {{OsWalk(scan_folders[k])[i].root : i \in 1..Len(OsWalk(scan_folders[k]))} :
             k \in 1..Len(scan_folders)}

\* The text after the last dot of the file's name, lower-cased.
ExtensionOf(p) ==
    LET name == Basename(p)
        dot == LastIndexOf(name, ".")
    IN IF dot = 0 THEN <<>> ELSE Lower(SubSeq(name, dot + 1, Len(name)))

\* C12: a readable file in a walked directory that is not excluded is found
\* exactly when the configured extension set is empty or absent, or holds the
\* file's extension (text after the last dot of its name, lower-cased).
C12_ExtensionFilter ==
    ScanRan =>
        \A p \in Paths :
            (/\ fs[p] # NoFile
             /\ p \notin unreadable
             /\ DirOf(p) \in WalkedDirs
             /\ ~Excluded(DirOf(p), exclude_folders))
            => (p \in DOMAIN found_files_by_path
                  <=> \/ target_extensions_of(scan_extensions) = {}
                      \/ ExtensionOf(p) \in target_extensions_of(scan_extensions))

\* Under "cbz, ZIP" the file T 2 (Y).ZIP is found and c.txt is not.
C12_Witness ==
    /\ ScanRan
    /\ scan_extensions = Some(ExtCbzZip)
    /\ PathJoin(DirLib, NameB) \in DOMAIN found_files_by_path
    /\ fs[PathJoin(DirSub, NameC)] # NoFile
    /\ PathJoin(DirSub, NameC) \notin unreadable
    /\ PathJoin(DirSub, NameC) \notin DOMAIN found_files_by_path

\* The path lies in a directory at or below an excluded path.
UnderExcluded(p) ==
    \E k \in 1..Len(exclude_folders) :
        \/ DirOf(p) = exclude_folders[k]
        \/ StartsWith(DirOf(p), exclude_folders[k] \o <<"/">>)

\* C13: a file in a directory at or below an excluded path is in neither
\* dictionary of found files, whichever scan root reaches it; no record is
\* inserted at or moved to such a path, and a record stored at such a path
\* whose hash is found nowhere else is deleted by a run that completes.
C13_Exclusion ==
    /\ ScanRan =>
          \A p \in Paths :
              UnderExcluded(p) =>
                  /\ p \notin DOMAIN found_files_by_path
                  /\ \A h \in DOMAIN found_files_by_hash : found_files_by_hash[h] # p
    /\ \A i \in OpsNamed("save_book") \cup OpsNamed("update_book_path") :
          ~UnderExcluded(ops[i].path)
    /\ Completed =>
          /\ \A i \in 1..Len(books) : ~UnderExcluded(books[i].file_path)
          /\ \A j \in 1..Len(db_books) :
                (/\ UnderExcluded(db_books[j].file_path)
                 /\ db_books[j].file_hash \notin DOMAIN found_files_by_hash)
                => \E i \in OpsNamed("delete_book") : ops[i].h = db_books[j].file_hash

\* A record stored under a folder excluded since has been deleted, its file
\* still on disk.
C13_Witness ==
    /\ Completed
    /\ \E j \in 1..Len(db_books) :
          /\ UnderExcluded(db_books[j].file_path)
          /\ fs[db_books[j].file_path] = db_books[j].file_hash
          /\ \E i \in OpsNamed("delete_book") : ops[i].h = db_books[j].file_hash

(***************************************************************************)
(* Files that cannot be read.                                              *)
(***************************************************************************)
\* The files the walk takes and cannot read.
\* C14: a file that cannot be read is in neither dictionary of found files,
\* no empty hash is registered, the files the walk reaches after it are found
\* all the same, and the run fails on nothing but a failed store operation.
C14_UnreadableSkipped ==
    ScanRan =>
        /\ \A p \in unreadable :
              /\ p \notin DOMAIN found_files_by_path
              /\ \A h \in DOMAIN found_files_by_hash : found_files_by_hash[h] # p
        /\ "" \notin DOMAIN found_files_by_hash
        /\ \A p \in ReadableAccepted :
              p \in DOMAIN found_files_by_path /\ found_files_by_path[p] = fs[p]
        /\ result = "failed" => (ops # <<>> /\ ~ops[Len(ops)].ok)

\* A run has completed although the walk met an unreadable file, and a file
\* reached after it was found.
C14_Witness ==
    /\ Completed
    /\ \E i \in 1..Len(AcceptedFiles) : \E j \in 1..Len(AcceptedFiles) :
          /\ i < j
          /\ AcceptedFiles[i] \in unreadable
          /\ AcceptedFiles[j] \in DOMAIN found_files_by_path

\* The records the store held at path p when the run started.
StoredAt(p) == {j \in 1..Len(db_books) : db_books[j].file_path = p}

\* C15 (as stated): a file whose hash is unavailable triggers no store
\* mutation for its path: no operation names the path, and no record stored
\* at the path is updated, moved or deleted.
C15_NoMutationForPath ==
    \A p \in UnreadableAccepted :
        \A i \in 1..Len(ops) :
            /\ ops[i].path # p
            /\ \A j \in StoredAt(p) : db_books[j].file_hash \notin Touched(ops[i])

\* C15 (amended): no store operation names the path of a file whose hash is
\* unavailable (no insert at it, no hash update at it, no move to it); the
\* record stored at that path is not confirmed by the run: a run that
\* completes has deleted it or moved it to a file found with its hash.
C15_NoOperationNamesPath ==
    /\ \A p \in UnreadableAccepted : \A i \in 1..Len(ops) : ops[i].path # p
    /\ Completed =>
          \A p \in UnreadableAccepted : \A j \in StoredAt(p) :
              \E i \in OpsNamed("delete_book") \cup OpsNamed("update_book_path") :
                  /\ ops[i].h = db_books[j].file_hash
                  /\ ops[i].op = "delete_book"
                       <=> db_books[j].file_hash \notin DOMAIN found_files_by_hash

\* The record of a file that has become unreadable has been moved to another
\* file of the same bytes.
C15_Witness ==
    /\ Completed
    /\ \E p \in UnreadableAccepted : \E j \in StoredAt(p) :
          \E i \in OpsNamed("update_book_path") : ops[i].h = db_books[j].file_hash

(***************************************************************************)
(* Failure of a store operation.                                           *)
(***************************************************************************)
\* The rows after store operation o has committed.
ApplyOp(rows, o) ==
    IF o.op = "update_book_hash" THEN update_book_hash(rows, o.h, o.h2, o.path).rows
    ELSE IF o.op = "update_book_path" THEN update_book_path(rows, o.h, o.path).rows
    ELSE IF o.op = "save_book" THEN save_book(rows, o.book).rows
    ELSE delete_book(rows, o.h).rows

RECURSIVE Replay(_, _)
Replay(rows, os) == IF os = <<>> THEN rows ELSE Replay(ApplyOp(rows, Head(os)), Tail(os))

\* C16: a store operation that fails is the last one the run issues (the
\* run stops there and ends as failed, nothing is retried), it changes
\* nothing itself, and every operation issued before it stays committed.
C16_FailureFatal ==
    /\ \A i \in 1..Len(ops) :
          ~ops[i].ok => (i = Len(ops) /\ pc = "idle" /\ result = "failed")
    /\ result = "failed" =>
          /\ ops # <<>>
          /\ ~ops[Len(ops)].ok
          /\ books = Replay(db_books, SubSeq(ops, 1, Len(ops) - 1))
    /\ result = "completed" => \A i \in 1..Len(ops) : ops[i].ok

\* A run has failed midway: an operation is committed, the failed one and
\* another one are not.
C16_Witness ==
    /\ result = "failed"
    /\ Len(ops) >= 2
    /\ books # db_books
    /\ deleted_hashes # {}

(***************************************************************************)
(* Properties of the controller.                                           *)
(***************************************************************************)
\* A run is in progress: its worker is started or scan_folders is at work.
RunInProgress == queued > 0 \/ pc # "idle"

\* C17: never two runs in progress (a worker waiting to begin while another
\* one is scanning, or two waiting); a sync request that arrives during a run
\* shows the 'already running' message and changes neither the worker
\* thread, nor the workers started, nor anything of the run or the store.
C17_MutualExclusion ==
    /\ [](queued + (IF pc # "idle" THEN 1 ELSE 0) <= 1)
    /\ [][(RequestSync /\ RunInProgress) =>
             /\ status_message' = MsgAlreadyRunning
             /\ UNCHANGED <<scannerVars, worker_thread, queued, finished_emitted>>]_vars

\* A request has been rejected while scan_folders is at work.
C17_Witness ==
    /\ pc # "idle"
    /\ queued = 0
    /\ worker_thread = "running"
    /\ status_message = MsgAlreadyRunning

\* A run under the controller has ended and no signal of it is on its way.
RunConcluded ==
    attached /\ pc = "idle" /\ queued = 0 /\ ~finished_emitted
        /\ result \in {"completed", "failed"}

\* C18: a run that has ended has been concluded by a notification to the
\* user: finished when it completed, failure when it aborted on a store error.
C18_TerminalNotification ==
    RunConcluded =>
        /\ result = "completed" => notification = "finished"
        /\ result = "failed" => notification = "failure"

(***************************************************************************)
(* Properties of the filename parser.                                      *)
(***************************************************************************)
\* parse_filename has been called.
Parsed == last_filename # None

\* C19: with the built-in rules, the file '[Yamada] Story 1巻.cbz' is parsed
\* to title "Story", author "Yamada", volume 1, magazine flag false, and the
\* record a run inserts for it has these fields with the file's path and hash.
C19_BuiltInExample ==
    (Parsed /\ self_rules = parser_rules /\ last_filename = Some(NameYamada)) =>
        LET path == PathJoin(DirLib, NameYamada)
            inserted == NewBook(path, "h1", now)
        IN /\ last_book.title = Some(<<"S">>)
           /\ last_book.author = Some(<<"Y">>)
           /\ last_book.volume = Some(1)
           /\ last_book.is_magazine_collection = FALSE
           /\ Metadata(inserted) = Metadata(last_book)
           /\ inserted.file_path = path
           /\ inserted.file_hash = "h1"

\* The rules of the list that match the name without its extension.
Matching(rules, filename) ==
    {k \in 1..Len(rules) : ReSearch(rules[k].regex, SplitExt(filename)[1]).ok}

\* C20: parse_filename returns the fields of the first rule, in the order of
\* the list it was given, whose pattern is found in the name without its
\* extension, whatever later rules match and whatever the priorities say;
\* when no rule matches, the title is the name without its extension.
C20_FirstMatchWins ==
    Parsed =>
        LET filename == last_filename[1]
            base == SplitExt(filename)[1]
            M == Matching(self_rules, filename)
        IN IF M = {}
           THEN last_book = Book(Some(base), None, None, None, None, None, FALSE)
           ELSE last_book = BookFromMatch(ReSearch(self_rules[SetMin(M)].regex, base).caps)

\* Two rules match, the first of the list has the larger priority number,
\* and the later one would have given another author.
C20_Witness ==
    /\ Parsed
    /\ \E i \in Matching(self_rules, last_filename[1]) :
       \E j \in Matching(self_rules, last_filename[1]) :
          /\ i < j
          /\ self_rules[i].priority > self_rules[j].priority
          /\ \A k \in Matching(self_rules, last_filename[1]) : i <= k
          /\ last_book.author = None
          /\ BookFromMatch(ReSearch(self_rules[j].regex,
                                     SplitExt(last_filename[1])[1]).caps).author # None

\* C21: when no rule of the list matches, an empty list included,
\* parse_filename returns a Book whose title is the file name without its
\* extension, with subtitle, volume, author, original_author and series
\* unset and the magazine flag false.
C21_NoMatchFallback ==
    (Parsed /\ Matching(self_rules, last_filename[1]) = {}) =>
        /\ last_book.title = Some(SplitExt(last_filename[1])[1])
        /\ last_book.subtitle = None
        /\ last_book.volume = None
        /\ last_book.author = None
        /\ last_book.original_author = None
        /\ last_book.series = None
        /\ last_book.is_magazine_collection = FALSE

\* Rules were tried on a name with an extension and none matched.
C21_Witness ==
    /\ Parsed
    /\ self_rules # <<>>
    /\ Matching(self_rules, last_filename[1]) = {}
    /\ SplitExt(last_filename[1])[2] # <<>>
    /\ last_book.title = Some(SplitExt(last_filename[1])[1])

\* The groupdict of the rule that wins on the last file name parsed.
WinningCaps ==
    LET base == SplitExt(last_filename[1])[1]
        M == Matching(self_rules, last_filename[1])
    IN ReSearch(self_rules[SetMin(M)].regex, base).caps

RuleWon == Parsed /\ Matching(self_rules, last_filename[1]) # {}

\* Group g of the winning rule took part in the match and captured text.
CapturedText(g) ==
    g \in DOMAIN WinningCaps /\ WinningCaps[g] # None /\ WinningCaps[g][1] # <<>>

\* C22: for the winning rule, is_magazine_collection is true exactly when
\* the magazine_flag group captured a non-empty string; it is false when the
\* pattern has no such group, the group took no part in the match, or it
\* captured the empty string.
C22_MagazineFlag ==
    RuleWon => (last_book.is_magazine_collection <=> CapturedText("magazine_flag"))

\* The decimal value of a string of digits, read from the left.
RECURSIVE Decimal(_, _)
Decimal(text, acc) ==
    IF text = <<>> THEN acc ELSE Decimal(Tail(text), 10 * acc + DigitVal[Head(text)])

\* C23: for the winning rule, the volume is the integer value of the volume
\* capture when that capture is a non-empty string of digits, and is unset
\* when the pattern has no volume group, the group took no part, or it
\* captured the empty string.
C23_Volume ==
    RuleWon =>
        IF CapturedText("volume")
        THEN last_book.volume = Some(Decimal(WinningCaps["volume"][1], 0))
        ELSE last_book.volume = None

\* A rule has won whose volume group captured the empty string, and the
\* volume is unset.
C23_Witness ==
    /\ RuleWon
    /\ "volume" \in DOMAIN WinningCaps
    /\ WinningCaps["volume"] = Some(<<>>)
    /\ last_book.volume = None

\* C24: the parser never sorts: after construction and after any number of
\* parse_filename calls, self.rules is the list the parser was given, in the
\* order it was given, and a call returns the fields of the first matching
\* rule of that order, ascending by priority or not.
C24_NeverResorts ==
    given_rules # None =>
        /\ self_rules = given_rules[1]
        /\ Parsed =>
              LET base == SplitExt(last_filename[1])[1]
                  M == {k \in 1..Len(given_rules[1]) :
                           ReSearch(given_rules[1][k].regex, base).ok}
              IN M # {} =>
                   last_book = BookFromMatch(ReSearch(given_rules[1][SetMin(M)].regex, base).caps)

\* A parser given its rules in descending priority has answered a second
\* call, on a name that two of its rules match, with the fields of the rule
\* that comes first in the list.
C24_Witness ==
    /\ given_rules # None
    /\ parse_calls = MaxCalls
    /\ Len(self_rules) >= 2
    /\ \A i \in 1..(Len(self_rules) - 1) :
          PriorityOf(self_rules[i]) > PriorityOf(self_rules[i + 1])
    /\ Cardinality(Matching(self_rules, last_filename[1])) >= 2
    /\ last_book # BookFromMatch(ReSearch(SortByPriority(self_rules)[1].regex,
                                          SplitExt(last_filename[1])[1]).caps)

\* The priority a rule states, 999 for a rule that states none.
StatedPriority(rule) == IF "priority" \in DOMAIN rule THEN rule.priority ELSE 999

\* The rules load_rules reads: those of the file, the built-in ones without it.
RuleSource == IF rules_file = None THEN hardcoded_rules ELSE rules_file[1]

\* The rules of a list that have priority p, in the order of the list.
WithPriority(rules, p) == SelectSeq(rules, LAMBDA rule : StatedPriority(rule) = p)

\* C25: load_rules returns the rules of the file, or the two built-in rules
\* of priorities 1 and 2 when there is no file, in non-decreasing priority,
\* rules of equal priority in their source order and a rule without a
\* priority as one of priority 999; that list is the one the parser gets.
C25_LoadOrdersByPriority ==
    loaded # None =>
        /\ Len(loaded[1]) = Len(RuleSource)
        /\ \A i \in 1..Len(loaded[1]) : \A j \in 1..Len(loaded[1]) :
              i < j => StatedPriority(loaded[1][i]) <= StatedPriority(loaded[1][j])
        /\ \A p \in {StatedPriority(RuleSource[i]) : i \in 1..Len(RuleSource)} :
              WithPriority(loaded[1], p) = WithPriority(RuleSource, p)
        /\ rules_file = None =>
              [i \in 1..Len(loaded[1]) |-> StatedPriority(loaded[1][i])] = <<1, 2>>
        /\ given_rules # None => given_rules = loaded /\ self_rules = loaded[1]

\* A file out of order, with two different rules of one priority and a rule
\* without priority ahead of them, has been loaded and handed to the parser.
C25_Witness ==
    /\ loaded # None /\ rules_file # None /\ given_rules # None
    /\ Len(rules_file[1]) = 3
    /\ "priority" \notin DOMAIN rules_file[1][1]
    /\ rules_file[1][2] # rules_file[1][3]
    /\ StatedPriority(rules_file[1][2]) = StatedPriority(rules_file[1][3])
    /\ self_rules = <<rules_file[1][2], rules_file[1][3], rules_file[1][1]>>

(***************************************************************************)
(* Properties of the update pass and of unreadable files.                  *)
(***************************************************************************)
\* The update pass of the run is over and no operation of it has failed.
UpdatePassDone == pc = "sync" \/ Completed

\* <<old, new, P>> for every record stored at the start of the run at a
\* found path P whose found hash is not the record's.
ChangedAtPath ==
    {<<db_books[k].file_hash, found_files_by_path[db_books[k].file_path],
       db_books[k].file_path>> :
        k \in {i \in 1..Len(db_books) :
                  /\ db_books[i].file_path \in DOMAIN found_files_by_path
                  /\ found_files_by_path[db_books[i].file_path] # db_books[i].file_hash}}

UpdatesIssued ==
    {<<ops[i].h, ops[i].h2, ops[i].path>> : i \in OpsNamed("update_book_hash")}

\* C26: a run issues update_book_hash(old, new, P) only for a path P that is
\* the path of a stored record and a found path whose found hash differs
\* from the record's, with old the record's hash and new the found one, at
\* most once for a path; when its update pass is over it has issued one for
\* every such path.
C26_UpdateDetection ==
    /\ UpdatesIssued \subseteq ChangedAtPath
    /\ \A i \in OpsNamed("update_book_hash") : \A j \in OpsNamed("update_book_hash") :
          ops[i].path = ops[j].path => i = j
    /\ UpdatePassDone => UpdatesIssued = ChangedAtPath

\* A completed run has updated the hash of one stored path and has found
\* another file, at a path for which it issued no update.
C26_Witness ==
    /\ Completed
    /\ Cardinality(OpsNamed("update_book_hash")) = 1
    /\ \A i \in OpsNamed("update_book_hash") : ops[i].ok
    /\ \E p \in DOMAIN found_files_by_path :
          \A i \in OpsNamed("update_book_hash") : ops[i].path # p

\* C27: when the update pass of a run is over, for every path it updated
\* from hash H1 to hash H2 the rest of the run issues no delete_book(H1) and
\* no save_book for H2, H1 is not in the db-by-hash set and H2 is not in the
\* found-by-hash set that the classification of moves, inserts and deletes
\* works on.
C27_UpdatePruning ==
    UpdatePassDone =>
        \A i \in OpsNamed("update_book_hash") :
            /\ \A j \in OpsNamed("delete_book") : ops[j].h # ops[i].h
            /\ \A j \in OpsNamed("save_book") : ops[j].h # ops[i].h2
            /\ ops[i].h \notin DOMAIN current_db_books_by_hash
            /\ ops[i].h2 \notin DOMAIN found_files_by_hash

\* What a step does to the created_at of the rows, the rows taken in rowid
\* order: it leaves every row's value alone (a row may go), or it appends
\* one row, and that step is a save_book.
CreatedAtKept ==
    \/ /\ Len(books') = Len(books)
       /\ \A i \in 1..Len(books) : books'[i].created_at = books[i].created_at
    \/ /\ Len(books') < Len(books)
       /\ \E gone \in SUBSET (1..Len(books)) :
             books' = [j \in 1..Len(books') |->
                         books[CHOOSE i \in (1..Len(books)) \ gone :
                                 Cardinality({k \in (1..i) \ gone : TRUE}) = j]]
    \/ /\ Len(books') = Len(books) + 1
       /\ SubSeq(books', 1, Len(books)) = books
       /\ ops' # ops
       /\ ops'[Len(ops')].op = "save_book"
       /\ books'[Len(books')].created_at = now

\* C28: created_at is written by save_book alone: no step changes the
\* created_at of a record that stays in the store, be it a content update,
\* a move, a user's edit or anything else, and the only step that brings in
\* a created_at is a save_book, which stamps the time of its run.
C28_CreatedAtImmutable == [][CreatedAtKept]_vars

\* A record inserted by an earlier run has been moved by a later run that
\* has completed, and has the created_at of the earlier run.
C28_Witness ==
    /\ Completed
    /\ \E i \in OpsNamed("update_book_path") : \E k \in 1..Len(books) :
          /\ books[k].file_hash = ops[i].h
          /\ books[k].file_path = ops[i].path
          /\ books[k].created_at < now
          /\ books[k].created_at > 0

\* C29: when a run has completed, a record that was stored at the path of a
\* file that is still on the disk but cannot be read, and whose hash no
\* found file has, has been deleted by the run.
C29_UnreadableDeleted ==
    Completed =>
        \A p \in UnreadableAccepted : \A j \in StoredAt(p) :
            (fs[p] # NoFile /\ db_books[j].file_hash \notin DOMAIN found_files_by_hash) =>
                /\ \E i \in OpsNamed("delete_book") :
                      ops[i].h = db_books[j].file_hash /\ ops[i].ok
                /\ RowsWithHash(db_books[j].file_hash) = {}
                /\ \A k \in 1..Len(books) : books[k].file_path # p

\* The record of a file that is on the disk, unreadable, has been deleted
\* while the record of another file has stayed.
C29_Witness ==
    /\ Completed
    /\ books # <<>>
    /\ \E p \in UnreadableAccepted : \E j \in StoredAt(p) :
          /\ fs[p] # NoFile
          /\ db_books[j].file_hash \notin DOMAIN found_files_by_hash
          /\ RowsWithHash(db_books[j].file_hash) = {}
          /\ OpsNamed("delete_book") # {}

\* The run that has completed is the one that followed a run which could
\* not read the file change.path; the file has been readable since.
ReadableAgain == Completed /\ change.kind = "readable"

\* C30 (as stated): a file that a run cannot read is not among the files
\* that run finds, and when the following run can read it, a record with
\* its hash exists at its path after that run.
C30_RecordAtPath ==
    /\ ScanRan => \A p \in unreadable : p \notin DOMAIN found_files_by_path
    /\ ReadableAgain =>
          \E k \in 1..Len(books) :
              books[k].file_hash = change.hash /\ books[k].file_path = change.path

\* C30 (amended): a file that a run cannot read is not among the files that
\* run finds; when the following run can read it, that run finds it with
\* its hash, and after the run one record has that hash: at the file's path
\* when no other file the walk reads has the same bytes, and at the last
\* walked file of these bytes otherwise.
C30_ReattemptNextRun ==
    /\ ScanRan => \A p \in unreadable : p \notin DOMAIN found_files_by_path
    /\ ReadableAgain =>
          /\ change.path \in DOMAIN found_files_by_path
          /\ found_files_by_path[change.path] = change.hash
          /\ Cardinality(RowsWithHash(change.hash)) = 1
          /\ \A k \in RowsWithHash(change.hash) :
                /\ books[k].file_path = LastWalked(change.hash)
                /\ ~change.duplicate => books[k].file_path = change.path

\* The file was skipped by a run, is readable in the next one, which has
\* inserted a record for it at its path.
C30_Witness ==
    /\ ReadableAgain
    /\ ~change.duplicate
    /\ \E i \in OpsNamed("save_book") :
          ops[i].h = change.hash /\ ops[i].path = change.path /\ ops[i].ok
    /\ \E k \in 1..Len(books) :
          books[k].file_hash = change.hash /\ books[k].file_path = change.path

(***************************************************************************)
(* Properties of the enumeration and of the notifications of a run.        *)
(***************************************************************************)
\* C31: after the enumeration of a run, found-by-path maps the path of every
\* accepted readable file, and of no other, to its hash; found-by-hash has
\* exactly the hashes that are values of found-by-path; and for every hash h
\* the path found-by-hash[h] is the last enumerated file of that hash, so
\* that found-by-path[found-by-hash[h]] = h.
C31_FoundIndexes ==
    ScanRan =>
        /\ DOMAIN found_files_by_path = ReadableAccepted
        /\ \A p \in DOMAIN found_files_by_path : found_files_by_path[p] = fs[p]
        /\ DOMAIN found_files_by_hash =
              {found_files_by_path[p] : p \in DOMAIN found_files_by_path}
        /\ \A h \in DOMAIN found_files_by_hash :
              /\ found_files_by_hash[h] \in DOMAIN found_files_by_path
              /\ found_files_by_path[found_files_by_hash[h]] = h
              /\ found_files_by_hash[h] = LastWalked(h)

\* The enumeration is just over and has met two files of one hash.
C31_Witness ==
    /\ pc = "updates"
    /\ ops = <<>>
    /\ DuplicatedHashes # {}
    /\ Cardinality(DOMAIN found_files_by_path) > Cardinality(DOMAIN found_files_by_hash)

\* The directories of the disk whose path begins with the path of an
\* excluded directory although they are neither it nor below it.
PartialPrefixDirs ==
    {TreeAll[i].root : i \in {k \in 1..Len(TreeAll) :
        \E j \in 1..Len(exclude_folders) :
            /\ StartsWith(TreeAll[k].root, exclude_folders[j])
            /\ TreeAll[k].root # exclude_folders[j]
            /\ ~StartsWith(TreeAll[k].root, exclude_folders[j] \o <<"/">>)}}

\* C32: a directory whose path string begins with the string of an excluded
\* path, without being that directory or one below it, is skipped too: none
\* of its files is found, and a completed run leaves no record at one.
C32_RawPrefixExclusion ==
    ScanRan =>
        \A d \in PartialPrefixDirs :
            /\ \A p \in DOMAIN found_files_by_path : DirOf(p) # d
            /\ \A h \in DOMAIN found_files_by_hash : DirOf(found_files_by_hash[h]) # d
            /\ Completed => \A k \in 1..Len(books) : DirOf(books[k].file_path) # d

\* /l is excluded, /lx is a scan folder with a readable file in it, and a
\* run has completed without a record for that file.
C32_Witness ==
    /\ Completed
    /\ DirOther \in PartialPrefixDirs
    /\ DirOther \in Range(scan_folders)
    /\ fs[PathOther] # NoFile
    /\ PathOther \notin unreadable
    /\ \A k \in 1..Len(books) : books[k].file_path # PathOther

EventsOf(ev) == {i \in 1..Len(events) : events[i].ev = ev}

Mutations == {"update_book_hash", "update_book_path", "save_book", "delete_book"}

\* The calls of the store that change it, as the run has emitted them.
MutationEvents == {i \in EventsOf("store") : events[i].what \in Mutations}

\* C33: in a run that has completed, the start notification comes before
\* every call of the store; for each operation issued (content update, path
\* update, insert, delete) exactly one progress notification of that kind
\* and hash was emitted, and no other; the completion notification and then
\* the finished signal come once each, after the last store mutation.
C33_ProgressEvents ==
    Completed =>
        /\ events[1] = Progress("start", "")
        /\ \A i \in EventsOf("progress") : events[i].what = "start" => i = 1
        /\ EventsOf("store") # {}
        /\ \A i \in EventsOf("store") : i > 1
        /\ Cardinality(MutationEvents) = Len(ops)
        /\ \A name \in Mutations : \A h \in Hashes :
              Cardinality({i \in EventsOf("progress") :
                             events[i].what = name /\ events[i].h = h})
                = Cardinality({j \in OpsNamed(name) : ops[j].h = h})
        /\ \A i \in EventsOf("progress") :
              events[i].what \in Mutations \cup {"start", "done"}
        /\ events[Len(events) - 1] = Progress("done", "")
        /\ events[Len(events)] = Finished
        /\ \A i \in EventsOf("progress") : events[i].what = "done" => i = Len(events) - 1
        /\ EventsOf("finished") = {Len(events)}
        /\ \A i \in MutationEvents : i < Len(events) - 1

\* A run has completed that issued an insert and a delete and notified each.
C33_Witness ==
    /\ Completed
    /\ OpsNamed("save_book") # {}
    /\ OpsNamed("delete_book") # {}
    /\ \E i \in EventsOf("progress") : events[i].what = "delete_book"
    /\ \E i \in EventsOf("progress") : events[i].what = "save_book"

\* The last file name parsed is name + "." + ext where name has no dot.
HasDotSuffix == Parsed /\ LastIndexOf(last_filename[1], ".") > 0
NameBeforeDot == SubSeq(last_filename[1], 1, LastIndexOf(last_filename[1], ".") - 1)
DotlessName == HasDotSuffix /\ "." \notin Range(NameBeforeDot)

\* C34 (as stated): for every name without a dot and every extension,
\* parsing name + "." + ext gives the Book that parsing name gives, and no
\* dot and extension is in the title, the fallback title included.
C34_ExtensionStripped ==
    DotlessName =>
        /\ last_book = parse_filename(self_rules, NameBeforeDot)
        /\ last_book.title # None => "." \notin Range(last_book.title[1])

\* C34 (amended): the same for every non-empty name without a dot; a name
\* that is nothing but a dot and a suffix has no extension to strip.
C34_ExtensionStrippedOfName ==
    (DotlessName /\ NameBeforeDot # <<>>) =>
        /\ last_book = parse_filename(self_rules, NameBeforeDot)
        /\ last_book.title # None => "." \notin Range(last_book.title[1])

\* A name with an extension has been parsed by a rule and by the fallback.
C34_Witness ==
    /\ DotlessName
    /\ NameBeforeDot # <<>>
    /\ Len(last_filename[1]) > Len(NameBeforeDot) + 1
    /\ last_book.title # None
    /\ last_book = parse_filename(self_rules, NameBeforeDot)
    /\ last_book.volume # None

(***************************************************************************)
(* Properties that no sentence of the specification states.                *)
(***************************************************************************)
\* C35: while every file is readable, no store operation of a run is
\* refused for the unique hash key: each update_book_hash is issued with a
\* new hash that no other record holds, each save_book with a hash that no
\* record holds, and no run aborts on a uniqueness violation.
C35_NoHashCollision ==
    unreadable = {} =>
        /\ \A i \in 1..Len(ops) : ops[i].ok
        /\ result # "failed"

\* C36: after a run under the controller has ended, completed or aborted
\* on a store error, the controller's run-in-progress state is cleared: the
\* process is there, the worker thread is stopped and reset and the sync
\* control is enabled, so that the next sync request starts a run and is
\* not rejected as already running.
C36_Restartable ==
    RunConcluded =>
        /\ alive
        /\ worker_thread = "none"
        /\ ~ScanInProgress(worker_thread)
        /\ sync_button_enabled

\* C37: from the moment a sync request is accepted until the finished
\* handler runs, the sync control is disabled: no step enables it, a sync
\* request that is rejected during the run included.
C37_SyncDisabledDuringRun ==
    (attached /\ worker_thread = "running") => ~sync_button_enabled

\* A step of toggle_private_mode.
ToggleStep == auth_steps' = auth_steps + 1 /\ last_auth'.handler = "toggle"

\* The password dialog of the step was accepted with a password that verifies
\* against the hash stored before the step.
VerifiedInStep ==
    /\ last_auth'.dialog = "accepted"
    /\ verify_password(password_hash, last_auth'.password)

\* C38: private mode is password-gated in one direction only. is_private_mode
\* changes from false to true only in a step of toggle_private_mode, and only
\* when no password hash is stored or the password dialog was accepted with a
\* password that verifies against the stored hash; with a hash stored, a
\* cancelled dialog or a wrong password leaves it false and the book list not
\* reloaded; from true, toggle_private_mode sets it false, reloads the list
\* and shows no password dialog.
C38_PrivateModeGate ==
    [][ /\ (~is_private_mode /\ is_private_mode') =>
              /\ ToggleStep
              /\ password_hash = None \/ VerifiedInStep
        /\ (ToggleStep /\ ~is_private_mode /\ password_hash # None /\ ~VerifiedInStep) =>
              /\ ~is_private_mode'
              /\ list_loads' = list_loads
        /\ (ToggleStep /\ is_private_mode) =>
              /\ ~is_private_mode'
              /\ list_loads' = list_loads + 1
              /\ last_auth'.dialog = "none"
      ]_vars

\* Private mode was entered with the stored password typed into an accepted
\* dialog, after it had been entered and left once before.
C38_Witness ==
    /\ last_auth.handler = "toggle"
    /\ last_auth.stored # None
    /\ is_private_mode
    /\ last_auth.dialog = "accepted"
    /\ verify_password(last_auth.stored, last_auth.password)
    /\ list_loads = 3

\* What the last authenticate_and_open_settings was entitled to: with a hash
\* stored, an accepted dialog whose password verifies against it; with none,
\* the first-time setup confirmed, the dialog accepted and a non-empty new
\* password saved.
SettingsGranted ==
    IF last_auth.stored # None
    THEN /\ last_auth.dialog = "accepted"
         /\ verify_password(last_auth.stored, last_auth.password)
    ELSE /\ last_auth.reply = "ok"
         /\ last_auth.dialog = "accepted"
         /\ last_auth.password # ""
         /\ last_auth.saved

\* C39: the settings window is password-gated. It is opened only by
\* authenticate_and_open_settings; when a password hash is stored, only after
\* the password dialog is accepted with a password that verifies against it;
\* when none is stored, only after the user confirms first-time setup and a
\* non-empty new password has been saved, the stored hash then being that
\* password's; on every other path (cancel, wrong password, failed save) the
\* settings window is not opened.
C39_SettingsGate ==
    /\ [](last_auth.handler = "settings" => (last_auth.opened <=> SettingsGranted))
    /\ [](last_auth.handler # "settings" => ~last_auth.opened)
    /\ [][ (~settings_open /\ settings_open') =>
              /\ last_auth'.handler = "settings"
              /\ last_auth'.opened
              /\ auth_steps' = auth_steps + 1
              /\ password_hash' # None
              /\ verify_password(password_hash', last_auth'.password)
          ]_vars

\* The first-time setup was confirmed, a new password saved, and the settings
\* window opened.
C39_Witness ==
    /\ last_auth.handler = "settings"
    /\ last_auth.stored = None
    /\ last_auth.reply = "ok"
    /\ last_auth.saved
    /\ last_auth.opened
    /\ settings_open
    /\ verify_password(password_hash, last_auth.password)

====
